---- MODULE Spec2Model ----
(***************************************************************************)
(* The synchronization core of the project dashboard (useAppStore): the    *)
(* cache lifecycle, the optimistic creation protocol and the remote        *)
(* transform, as a state machine.  Every asynchronous operation is split   *)
(* at its awaits: the call action runs the handler up to its first await,  *)
(* a settle action resumes it with the gateway's answer.                   *)
(*                                                                         *)
(* Representation.  Identifiers and messages are strings, null/undefined   *)
(* is the string NULL.  Texts that the code searches (status texts, column *)
(* ids) are sequences of one-character strings; board and project names    *)
(* are sequences of tokens.  The display-only fields of the entities       *)
(* (description, salesforceNumber, team, color, type, assignedPerson,      *)
(* dueDate, createdAt, updatedAt) are left out.                            *)
(***************************************************************************)
EXTENDS Integers, Sequences, FiniteSets, TLC

VARIABLES
    projects,          \* AppStore.projects
    projectsCache,     \* AppStore.projectsCache: NoCache or Some(list)
    lastCacheUpdate,   \* AppStore.lastCacheUpdate: NoTime or a Date.now() value
    isRefreshing,      \* AppStore.isRefreshing
    isLoading,         \* AppStore.isLoading
    error,             \* AppStore.error: NULL or a message
    now,               \* the value Date.now() returns
    workspaceId,       \* import.meta.env.VITE_MONDAY_WORKSPACE_ID is set
    boards,            \* the boards held by the remote platform
    nextId,            \* source of fresh identifiers (remote and temporary)
    loadChains,        \* loadProjectsFromMonday chains awaiting getBoards
    refreshChains,     \* refreshProjectsInBackground chains awaiting getBoards
    createChains,      \* createProject chains, each at one of its awaits
    opChains,          \* module, sub-task and refreshProject chains at their awaits
    timers,            \* pending setTimeout callbacks (refresh after a module change)
    opCount,           \* module and sub-task operations invoked so far
    tracing,           \* test instruments on (fixed by the initial state)
    getBoardsCalls,    \* test instrument: list-boards calls issued
    returned,          \* test instrument: projects seen when each load resolved
    last,              \* what the last step was and what it issued
    syncInterval,      \* AppStore.syncInterval: NoHandle or the handle setInterval gave
    intervals,         \* the recurring timers that are live (set, not yet cleared)
    intervalIds        \* setInterval calls made so far (the source of handles)

store == <<projects, projectsCache, lastCacheUpdate, isRefreshing, isLoading, error>>
vars == <<projects, projectsCache, lastCacheUpdate, isRefreshing, isLoading, error,
          now, workspaceId, boards, nextId, loadChains, refreshChains,
          createChains, opChains, timers, opCount, tracing, getBoardsCalls,
          returned, last, syncInterval, intervals, intervalIds>>
\* the periodic-sync state, which only startAutoSync and stopAutoSync write
sync == <<syncInterval, intervals, intervalIds>>

----
(* Bounds of the model *)

\* Date.now() advances MaxTicks times at most.
MaxTicks == 5
\* loadProjectsFromMonday chains in flight at once.
MaxLoadChains == 1
\* createProject invocations in one behaviour.
MaxCreates == 1
\* module and refreshProject invocations in one behaviour.
MaxOps == 1
\* sub-task invocations in one behaviour.
MaxSubTaskOps == 2
\* module, sub-task and refreshProject chains in flight at once.
MaxOpChains == 1
\* setInterval calls (startAutoSync invocations) in one behaviour.
MaxSyncStarts == 3
\* words of a raw status text, boards of a gateway answer given to the transform.
MaxStatusWords == 2
MaxBoards == 2
\* modules of a module list given to calculateProjectProgress, tasks of each.
MaxProgressModules == 2
MaxProgressTasks == 2

----
(* Values *)

NULL == "null"
NoTime == 0          \* lastCacheUpdate: null (Date.now() is never 0)
NoCache == [some |-> FALSE, list |-> <<>>]
NoHandle == 0        \* syncInterval: null (setInterval never returns 0)
Some(list) == [some |-> TRUE, list |-> list]

MINUTE == 60 * 1000
\* The modelled clock moves in steps of two minutes, so that a snapshot is
\* seen at the ages 0, 2 (the staleness threshold itself), 4, 6, 8 and
\* 10 minutes (the freshness window itself).
TickStep == 2 * MINUTE

\* "E_acute", "e_acute", "A_tilde", "a_tilde" and "copyright" each stand for the
\* one character U+00C9, U+00E9, U+00C3, U+00E3 and U+00A9
UpperCase == <<"A","B","C","D","E","F","G","H","I","J","K","L","M",
               "N","O","P","Q","R","S","T","U","V","W","X","Y","Z",
               "E_acute","A_tilde">>
LowerCase == <<"a","b","c","d","e","f","g","h","i","j","k","l","m",
               "n","o","p","q","r","s","t","u","v","w","x","y","z",
               "e_acute","a_tilde">>

\* String.prototype.toLowerCase, character by character
toLowerCase(s) ==
    [i \in 1..Len(s) |->
        IF \E k \in 1..Len(UpperCase) : UpperCase[k] = s[i]
        THEN LowerCase[CHOOSE k \in 1..Len(UpperCase) : UpperCase[k] = s[i]]
        ELSE s[i]]

\* String.prototype.includes: sub occurs in s as a contiguous run
includes(s, sub) ==
    \E i \in 0..(Len(s) - Len(sub)) : SubSeq(s, i + 1, i + Len(sub)) = sub

----
(* Status mapping and progress (pure functions) *)

\* 'Not Started', the text assumed when the status column has none
NotStarted == <<"N","o","t"," ","S","t","a","r","t","e","d">>
txt_done == <<"d","o","n","e">>
txt_completed == <<"c","o","m","p","l","e","t","e","d">>
\* the literal of line 202 as the file holds it: each accented e of the word is
\* stored as the two characters U+00C3 U+00A9
txt_realise == <<"r","A_tilde","copyright","a","l","i","s","A_tilde","copyright">>
txt_progress == <<"p","r","o","g","r","e","s","s">>
txt_cours == <<"c","o","u","r","s">>
txt_en_cours == <<"e","n"," ","c","o","u","r","s">>
txt_status == <<"s","t","a","t","u","s">>

\* column_values?.find(col => col.type === 'status' || col.id.includes('status'))?.text
\*   || 'Not Started'
statusText(item) ==
    LET cols == item.column_values
        hit(i) == cols[i].type = "status" \/ includes(cols[i].id, txt_status)
        found == {i \in 1..Len(cols) : hit(i)}
        first == CHOOSE i \in found : \A j \in found : i <= j
    IN  IF found = {} THEN NotStarted
        ELSE IF cols[first].text = <<>> THEN NotStarted
        ELSE cols[first].text

\* The status mapping of the remote transform
taskStatus(text) ==
    LET t == toLowerCase(text)
    IN  IF includes(t, txt_done) \/ includes(t, txt_completed) \/ includes(t, txt_realise)
        THEN "done"
        ELSE IF includes(t, txt_progress) \/ includes(t, txt_cours) \/ includes(t, txt_en_cours)
        THEN "in_progress"
        ELSE "todo"

RECURSIVE flatTasks(_)
\* modules.flatMap(module => module.tasks)
flatTasks(modules) ==
    IF modules = <<>> THEN <<>>
    ELSE Head(modules).tasks \o flatTasks(Tail(modules))

taskPoints(task) ==
    CASE task.status = "done" -> 100
      [] task.status = "in_progress" -> 50
      [] OTHER -> 0

RECURSIVE sumPoints(_)
sumPoints(tasks) ==
    IF tasks = <<>> THEN 0 ELSE taskPoints(Head(tasks)) + sumPoints(Tail(tasks))

\* Math.floor(a / b) in the place of Math.round
round_Floor(a, b) == a \div b

\* Math.round(a / b) for a >= 0, b > 0: halves round up
round(a, b) == (2 * a + b) \div (2 * b)

calculateProjectProgress(modules) ==
    LET allTasks == flatTasks(modules)
    IN  IF Len(allTasks) = 0 THEN 0
        ELSE round(sumPoints(allTasks), Len(allTasks))

----
(* The full remote transform *)

\* 'Sous-elements de', the marker of a sub-item board, as one name token
SubItemMarker == "Sous-elements de"

\* board.name.includes(marker), at the granularity of name tokens
nameIncludes(name, marker) == \E i \in 1..Len(name) : name[i] = marker

taskOfItem(item) ==
    [id |-> item.id, name |-> item.name, mondayItemId |-> item.id,
     status |-> taskStatus(statusText(item)), subTasks |-> <<>>]

moduleOfGroup(group) ==
    [id |-> group.id, name |-> group.title, mondayGroupId |-> group.id,
     tasks |-> [i \in 1..Len(group.items) |-> taskOfItem(group.items[i])],
     status |-> "not_started"]

projectOfBoard(board) ==
    LET modules == [i \in 1..Len(board.groups) |-> moduleOfGroup(board.groups[i])]
    IN  [id |-> board.id, name |-> board.name, mondayBoardId |-> board.id,
         modules |-> modules, progress |-> calculateProjectProgress(modules),
         syncStatus |-> NULL, syncError |-> NULL]

transformBoards(bs) ==
    LET active == SelectSeq(bs, LAMBDA b : b.state # "archived")
        shown == SelectSeq(active, LAMBDA b : ~nameIncludes(b.name, SubItemMarker))
    IN  [i \in 1..Len(shown) |-> projectOfBoard(shown[i])]

----
(* The remote platform and the gateway *)

col_status(text) == [type |-> "status", id |-> <<"c","1">>, text |-> text]
col_named(text) == [type |-> "color", id |-> <<"s","t","a","t","u","s","4">>, text |-> text]
col_text(text) == [type |-> "text", id |-> <<"n","o","t","e">>, text |-> text]

item_done == [id |-> "i1", name |-> "Install",
              column_values |-> <<col_text(<<"x">>), col_status(<<"D","o","n","e">>)>>]
item_cours == [id |-> "i2", name |-> "Configure",
               column_values |-> <<col_named(<<"E","n"," ","c","o","u","r","s">>)>>]
item_bare == [id |-> "i3", name |-> "Document", column_values |-> <<>>]

board_acme == [id |-> "b1", name |-> <<"Acme-1">>, state |-> "active",
               groups |-> <<[id |-> "g1", title |-> "Infrastructure",
                             items |-> <<item_done, item_cours, item_bare>>]>>]
board_old == [id |-> "b2", name |-> <<"Old-2">>, state |-> "archived", groups |-> <<>>]
board_sub == [id |-> "b3", name |-> <<SubItemMarker, "Acme-1">>, state |-> "active",
              groups |-> <<[id |-> "g3", title |-> "Subitems", items |-> <<>>]>>]
board_zen == [id |-> "b4", name |-> <<"Zen-4">>, state |-> "active",
              groups |-> <<[id |-> "g4", title |-> "Cloud", items |-> <<item_done>>]>>]

\* What the remote platform may hold, apart from what this client creates
RemoteStates == { <<board_old, board_acme, board_sub>>, <<board_acme, board_zen>> }

\* What a failing gateway call throws: an Error with its message, or another value
Thrown == { [isError |-> TRUE, message |-> "Network error"],
            [isError |-> FALSE, message |-> NULL] }

\* error instanceof Error ? error.message : fallback
messageOf(e, fallback) == IF e.isError THEN e.message ELSE fallback

ConfigError == "Workspace ID not configured"

----
(* Instruments *)

\* op: the step; by: the operation it belongs to; useCache, path: the branch a
\* load took (for a createProject chain, path is the await it stands at); bg: calls of refreshProjectsInBackground made; gw: gateway calls
\* issued; rejected: the operation's promise rejected; id, pos: the temporary
\* identifier of a createProject chain and the list position of its entity;
\* failed: the tasks <<module, task, 0>> and sub-tasks <<module, task, sub-task>>
\* whose remote creation has failed in that chain.
\* arg: the arguments of a module or sub-task operation.
NoArg == [projectId |-> NULL, moduleId |-> NULL, taskId |-> NULL,
          subTaskId |-> NULL, name |-> NULL]
NoStep == [op |-> "none", by |-> "none", useCache |-> FALSE, path |-> "none",
           bg |-> 0, gw |-> <<>>, rejected |-> FALSE, id |-> NULL, pos |-> 0,
           failed |-> {}, arg |-> NoArg]
Step(op, by, useCache, path, bg, gw, rejected) ==
    [op |-> op, by |-> by, useCache |-> useCache, path |-> path,
     bg |-> bg, gw |-> gw, rejected |-> rejected, id |-> NULL, pos |-> 0,
     failed |-> {}, arg |-> NoArg]
ChainStep(op, c, gw, rejected) ==
    [op |-> op, by |-> "createProject", useCache |-> FALSE, path |-> c.pc,
     bg |-> 0, gw |-> gw, rejected |-> rejected, id |-> c.tempId, pos |-> c.pos,
     failed |-> c.failed, arg |-> NoArg]
\* a step of the operation by, called with arg, on the branch path
OpStep(op, by, path, arg, gw, rejected) ==
    [op |-> op, by |-> by, useCache |-> FALSE, path |-> path,
     bg |-> 0, gw |-> gw, rejected |-> rejected, id |-> arg.projectId, pos |-> 0,
     failed |-> {}, arg |-> arg]

count(n, k) == IF tracing THEN n + k ELSE n
record(ps) == IF tracing THEN Append(returned, ps) ELSE returned

RemoveAt(s, i) == SubSeq(s, 1, i - 1) \o SubSeq(s, i + 1, Len(s))

----
(* Initial state *)

InitStore ==
    /\ projects = <<>>
    /\ projectsCache = NoCache
    /\ lastCacheUpdate = NoTime
    /\ isRefreshing = FALSE
    /\ isLoading = FALSE
    /\ error = NULL

InitRest ==
    /\ now = TickStep
    /\ nextId = 1
    /\ loadChains = <<>>
    /\ refreshChains = 0
    /\ createChains = <<>>
    /\ opChains = <<>>
    /\ timers = 0
    /\ opCount = 0
    /\ getBoardsCalls = 0
    /\ returned = <<>>
    /\ last = NoStep
    /\ syncInterval = NoHandle
    /\ intervals = {}
    /\ intervalIds = 0

Init ==
    /\ InitStore
    /\ InitRest
    /\ workspaceId \in BOOLEAN
    /\ boards \in RemoteStates
    /\ tracing = FALSE

----
(* Cache lifecycle *)

CACHE_DURATION == 10 * MINUTE
STALE_AFTER == 2 * MINUTE

cacheValid_Inclusive(useCache, cache, stamp, t) ==
    useCache /\ cache.some /\ stamp # NoTime /\ (t - stamp) <= CACHE_DURATION

\* useCache && state.projectsCache && state.lastCacheUpdate &&
\*   (now - state.lastCacheUpdate) < CACHE_DURATION
cacheValid(useCache, cache, stamp, t) ==
    useCache /\ cache.some /\ stamp # NoTime /\ (t - stamp) < CACHE_DURATION

cacheStale_Inclusive(stamp, t) == (t - stamp) >= STALE_AFTER

cacheStale_Always(stamp, t) == TRUE

\* (now - state.lastCacheUpdate) > 2 * 60 * 1000
cacheStale(stamp, t) == (t - stamp) > STALE_AFTER

StartRefresh_NoGuard ==
    /\ isRefreshing' = TRUE
    /\ IF workspaceId
       THEN /\ refreshChains' = refreshChains + 1
            /\ getBoardsCalls' = count(getBoardsCalls, 1)
       ELSE UNCHANGED <<refreshChains, getBoardsCalls>>

\* refreshProjectsInBackground up to its await: the single-flight guard,
\* the flag, the configuration check, the getBoards call
StartRefresh ==
    IF isRefreshing
    THEN UNCHANGED <<isRefreshing, refreshChains, getBoardsCalls>>
    ELSE /\ isRefreshing' = TRUE
         /\ IF workspaceId
            THEN /\ refreshChains' = refreshChains + 1
                 /\ getBoardsCalls' = count(getBoardsCalls, 1)
            ELSE UNCHANGED <<refreshChains, getBoardsCalls>>

\* the gateway calls StartRefresh issues from the current state
refreshIssues == IF ~isRefreshing /\ workspaceId THEN <<"getBoards">> ELSE <<>>

\* FetchPath without the configuration check of lines 165-168
FetchPath_NoCheck(by) ==
    /\ Len(loadChains) < MaxLoadChains
    /\ isLoading' = TRUE
    /\ error' = NULL
    /\ loadChains' = Append(loadChains, [now |-> now, by |-> by])
    /\ getBoardsCalls' = count(getBoardsCalls, 1)
    /\ UNCHANGED returned

\* loadProjectsFromMonday after the cache test failed, up to its await:
\* isLoading, the configuration check (whose throw is caught at once),
\* the getBoards call
FetchPath(by) ==
    IF workspaceId
    THEN /\ Len(loadChains) < MaxLoadChains
         /\ isLoading' = TRUE
         /\ error' = NULL
         /\ loadChains' = Append(loadChains, [now |-> now, by |-> by])
         /\ getBoardsCalls' = count(getBoardsCalls, 1)
         /\ UNCHANGED returned
    ELSE /\ isLoading' = FALSE
         /\ error' = ConfigError
         /\ returned' = record(projects)
         /\ UNCHANGED <<loadChains, getBoardsCalls>>

fetchStep(by, useCache) ==
    IF workspaceId
    THEN Step("load", by, useCache, "fetch", 0, <<"getBoards">>, FALSE)
    ELSE Step("load", by, useCache, "config", 0, <<>>, FALSE)

loadProjectsFromMonday(useCache) ==
    IF cacheValid(useCache, projectsCache, lastCacheUpdate, now)
    THEN /\ projects' = projectsCache.list
         /\ isLoading' = FALSE
         /\ returned' = record(projectsCache.list)
         /\ IF cacheStale(lastCacheUpdate, now)
            THEN /\ StartRefresh
                 /\ last' = Step("load", "load", useCache, "cache", 1, refreshIssues, FALSE)
            ELSE /\ UNCHANGED <<isRefreshing, refreshChains, getBoardsCalls>>
                 /\ last' = Step("load", "load", useCache, "cache", 0, <<>>, FALSE)
         /\ UNCHANGED <<projectsCache, lastCacheUpdate, error, loadChains>>
    ELSE /\ FetchPath("load")
         /\ last' = fetchStep("load", useCache)
         /\ UNCHANGED <<projects, projectsCache, lastCacheUpdate, isRefreshing, refreshChains>>

LoadCallWith(useCache) ==
    /\ loadProjectsFromMonday(useCache)
    /\ UNCHANGED <<now, workspaceId, boards, nextId, createChains, tracing, sync, opChains, timers, opCount>>

LoadCall == \E useCache \in BOOLEAN : LoadCallWith(useCache)

loadInstall_NoSnapshot(c) ==
    /\ projects' = transformBoards(boards)
    /\ isLoading' = FALSE
    /\ UNCHANGED <<projectsCache, lastCacheUpdate, error>>

\* getBoards answered: transform and install (lines 171-236)
loadInstall(c) ==
    LET ps == transformBoards(boards)
    IN  /\ projects' = ps
        /\ projectsCache' = Some(ps)
        /\ lastCacheUpdate' = c.now
        /\ isLoading' = FALSE
        /\ UNCHANGED error

LoadSettleOk ==
    /\ \E i \in 1..Len(loadChains) :
          /\ loadInstall(loadChains[i])
          /\ loadChains' = RemoveAt(loadChains, i)
          /\ last' = Step("loadOk", loadChains[i].by, FALSE, "fetch", 0, <<>>, FALSE)
    /\ returned' = record(projects')
    /\ UNCHANGED <<isRefreshing, now, workspaceId, boards, nextId, refreshChains,
                   createChains, tracing, sync, opChains, timers, opCount, getBoardsCalls>>

\* the catch of lines 237-243 without its isLoading: false
loadCatch_KeepsLoading(c, e) ==
    /\ error' = messageOf(e, "Failed to load projects")
    /\ last' = Step("loadFail", c.by, FALSE, "fetch", 0, <<>>, FALSE)
    /\ UNCHANGED <<projects, projectsCache, lastCacheUpdate, isLoading>>

\* getBoards failed: the catch of loadProjectsFromMonday (lines 237-243)
loadCatch(c, e) ==
    /\ error' = messageOf(e, "Failed to load projects")
    /\ isLoading' = FALSE
    /\ last' = Step("loadFail", c.by, FALSE, "fetch", 0, <<>>, FALSE)
    /\ UNCHANGED <<projects, projectsCache, lastCacheUpdate>>

LoadSettleFail ==
    /\ \E i \in 1..Len(loadChains) : \E e \in Thrown :
          /\ loadCatch(loadChains[i], e)
          /\ loadChains' = RemoveAt(loadChains, i)
    /\ returned' = record(projects')
    /\ UNCHANGED <<isRefreshing, now, workspaceId, boards, nextId, refreshChains,
                   createChains, tracing, sync, opChains, timers, opCount, getBoardsCalls>>

\* refreshProjectsInBackground called (the periodic timer, the delayed
\* reconciliation after a module change, or a load from a stale snapshot)
RefreshCall ==
    /\ StartRefresh
    /\ last' = Step("refresh", "refresh", FALSE, IF isRefreshing THEN "busy" ELSE "run",
                    1, refreshIssues, FALSE)
    /\ UNCHANGED <<projects, projectsCache, lastCacheUpdate, isLoading, error, now,
                   workspaceId, boards, nextId, loadChains, createChains, tracing, sync, opChains, timers, opCount,
                   returned>>

\* the install of lines 321-327 without its lastCacheUpdate
refreshInstall_NoStamp ==
    LET ps == transformBoards(boards)
    IN  /\ projects' = ps
        /\ projectsCache' = Some(ps)
        /\ isRefreshing' = FALSE
        /\ UNCHANGED <<lastCacheUpdate, isLoading, error>>

\* lines 262-327
refreshInstall ==
    LET ps == transformBoards(boards)
    IN  /\ projects' = ps
        /\ projectsCache' = Some(ps)
        /\ lastCacheUpdate' = now
        /\ isRefreshing' = FALSE
        /\ UNCHANGED <<isLoading, error>>

RefreshSettleOk ==
    /\ refreshChains > 0
    /\ refreshInstall
    /\ refreshChains' = refreshChains - 1
    /\ last' = Step("refreshOk", "refresh", FALSE, "run", 0, <<>>, FALSE)
    /\ UNCHANGED <<now, workspaceId, boards, nextId, loadChains, createChains,
                   tracing, sync, opChains, timers, opCount, getBoardsCalls, returned>>

refreshCatch_Surfaces(e) ==
    /\ isRefreshing' = FALSE
    /\ error' = messageOf(e, "Failed to refresh projects")
    /\ last' = Step("refreshFail", "refresh", FALSE, "run", 0, <<>>, FALSE)
    /\ UNCHANGED <<projects, projectsCache, lastCacheUpdate, isLoading>>

\* the catch of refreshProjectsInBackground (lines 329-336)
refreshCatch(e) ==
    /\ isRefreshing' = FALSE
    /\ last' = Step("refreshFail", "refresh", FALSE, "run", 0, <<>>, FALSE)
    /\ UNCHANGED <<projects, projectsCache, lastCacheUpdate, isLoading, error>>

RefreshSettleFail ==
    /\ refreshChains > 0
    /\ \E e \in Thrown : refreshCatch(e)
    /\ refreshChains' = refreshChains - 1
    /\ UNCHANGED <<now, workspaceId, boards, nextId, loadChains, createChains,
                   tracing, sync, opChains, timers, opCount, getBoardsCalls, returned>>

invalidateCache_KeepsStamp ==
    /\ projectsCache' = NoCache
    /\ UNCHANGED lastCacheUpdate

\* set({ projectsCache: null, lastCacheUpdate: null })
invalidateCache ==
    /\ projectsCache' = NoCache
    /\ lastCacheUpdate' = NoTime

InvalidateCache ==
    /\ invalidateCache
    /\ last' = Step("invalidate", "invalidate", FALSE, "none", 0, <<>>, FALSE)
    /\ UNCHANGED <<projects, isRefreshing, isLoading, error, now, workspaceId, boards,
                   nextId, loadChains, refreshChains, createChains, tracing, sync, opChains, timers, opCount,
                   getBoardsCalls, returned>>

forceSync_Cached ==
    IF cacheValid(TRUE, projectsCache, lastCacheUpdate, now)
    THEN /\ projects' = projectsCache.list
         /\ isLoading' = FALSE
         /\ returned' = record(projectsCache.list)
         /\ last' = Step("load", "forceSync", TRUE, "cache", 0, <<>>, FALSE)
         /\ UNCHANGED <<projectsCache, lastCacheUpdate, error, loadChains,
                        isRefreshing, refreshChains, getBoardsCalls>>
    ELSE /\ invalidateCache
         /\ FetchPath("forceSync")
         /\ last' = fetchStep("forceSync", FALSE)
         /\ UNCHANGED <<projects, isRefreshing, refreshChains>>

\* state.invalidateCache(); await state.loadProjectsFromMonday(false)
forceSync ==
    /\ invalidateCache
    /\ FetchPath("forceSync")
    /\ last' = fetchStep("forceSync", FALSE)
    /\ UNCHANGED <<projects, isRefreshing, refreshChains>>

ForceSync ==
    /\ forceSync
    /\ UNCHANGED <<now, workspaceId, boards, nextId, createChains, tracing, sync, opChains, timers, opCount>>

\* Date.now() moves on
Tick ==
    /\ now < (MaxTicks + 1) * TickStep
    /\ now' = now + TickStep
    /\ last' = Step("tick", "env", FALSE, "none", 0, <<>>, FALSE)
    /\ UNCHANGED <<store, workspaceId, boards, nextId, loadChains, refreshChains,
                   createChains, tracing, sync, opChains, timers, opCount, getBoardsCalls, returned>>

\* Somebody else edits the remote platform
RemoteChange ==
    /\ boards' \in RemoteStates \ {boards}
    /\ last' = Step("remote", "env", FALSE, "none", 0, <<>>, FALSE)
    /\ UNCHANGED <<store, now, workspaceId, nextId, loadChains, refreshChains,
                   createChains, tracing, sync, opChains, timers, opCount, getBoardsCalls, returned>>

NextCache ==
    \/ LoadCall
    \/ LoadSettleOk
    \/ LoadSettleFail
    \/ RefreshCall
    \/ RefreshSettleOk
    \/ RefreshSettleFail
    \/ InvalidateCache
    \/ ForceSync
    \/ Tick
    \/ RemoteChange

SpecCache == Init /\ [][NextCache]_vars

----
(* Template lookup (useModuleTemplatesStore, a read-only table) *)

templates ==
    << [name |-> "Infrastructure",
        tasks |-> << [name |-> "Audit",
                      subTasks |-> << [id |-> "tpl_s1", name |-> "Inventory",
                                       mondaySubItemId |-> NULL, status |-> "todo"] >>],
                     [name |-> "Deploy", subTasks |-> <<>>],
                     [name |-> "Handover", subTasks |-> <<>>] >>],
       [name |-> "Network", tasks |-> << [name |-> "Cabling", subTasks |-> <<>>] >>] >>

fallbackTasks ==
    << [name |-> "Tache 1", subTasks |-> <<>>],
       [name |-> "Tache 2", subTasks |-> <<>>],
       [name |-> "Tache 3", subTasks |-> <<>>] >>

\* the lookup without its template branch (lines 88-94 only)
getDefaultTasksForModule_Fallback(moduleName) == fallbackTasks

getDefaultTasksForModule(moduleName) ==
    LET found == {i \in 1..Len(templates) : templates[i].name = moduleName}
    IN  IF found # {}
        THEN templates[CHOOSE i \in found : \A j \in found : i <= j].tasks
        ELSE fallbackTasks

\* What createProject is called with
ProjectInputs ==
    { [name |-> <<"New-9">>, modules |-> <<"Infrastructure">>],
      [name |-> <<"Bare-7">>, modules |-> <<>>] }

----
(* The remote platform's side of the creation calls *)

\* A board is created with the platform's default group
defaultGroup == [id |-> "topics", title |-> "Group Title", items |-> <<>>]

remoteCreateBoard(bs, id, name) ==
    Append(bs, [id |-> id, name |-> name, state |-> "active",
                groups |-> <<defaultGroup>>])

remoteCreateGroup(bs, boardId, id, title) ==
    [i \in 1..Len(bs) |->
        IF bs[i].id = boardId
        THEN [bs[i] EXCEPT !.groups = Append(@, [id |-> id, title |-> title,
                                                  items |-> <<>>])]
        ELSE bs[i]]

remoteCreateItem(bs, boardId, groupId, id, name) ==
    [i \in 1..Len(bs) |->
        IF bs[i].id = boardId
        THEN [bs[i] EXCEPT !.groups =
                [j \in 1..Len(@) |->
                    IF @[j].id = groupId
                    THEN [@[j] EXCEPT !.items =
                            Append(@, [id |-> id, name |-> name,
                                       column_values |-> <<>>])]
                    ELSE @[j]]]
        ELSE bs[i]]

remoteDeleteGroup(bs, boardId, groupId) ==
    [i \in 1..Len(bs) |->
        IF bs[i].id = boardId
        THEN [bs[i] EXCEPT !.groups = SelectSeq(@, LAMBDA g : g.id # groupId)]
        ELSE bs[i]]

\* groupsResult.boards[0]?.groups?.find(title is 'Group Title' or 'New Group')
hasDefaultGroup(bs, boardId) ==
    \E i \in 1..Len(bs) :
        /\ bs[i].id = boardId
        /\ \E j \in 1..Len(bs[i].groups) :
              bs[i].groups[j].title \in {"Group Title", "New Group"}

----
(* createProject *)

\* lines 362-379
optimisticProject(tempId, input) ==
    [id |-> tempId, name |-> input.name, mondayBoardId |-> tempId,
     modules |-> <<>>, progress |-> 0, syncStatus |-> "syncing",
     syncError |-> NULL]

\* lines 402-415, with the modules pushed so far
confirmedProject(c) ==
    [id |-> c.boardId, name |-> c.input.name, mondayBoardId |-> c.boardId,
     modules |-> c.modules, progress |-> calculateProjectProgress(c.modules),
     syncStatus |-> "synced", syncError |-> NULL]

\* state.projects.map(p => p.id === id ? f(p) : p)
mapById(ps, id, f(_)) ==
    [i \in 1..Len(ps) |-> IF ps[i].id = id THEN f(ps[i]) ELSE ps[i]]

\* lines 381-392: the optimistic update, then the first await
CreateProject ==
    /\ nextId <= MaxCreates
    /\ \E input \in ProjectInputs :
          LET tempId == "temp_" \o ToString(nextId)
              updatedProjects == Append(projects, optimisticProject(tempId, input))
              c == [pc |-> "createBoard", tempId |-> tempId, pos |-> Len(updatedProjects),
                    input |-> input, boardId |-> NULL, mi |-> 0, groupId |-> NULL,
                    ti |-> 0, itemId |-> NULL, si |-> 0, subTasks |-> <<>>,
                    tasks |-> <<>>, modules |-> <<>>, failed |-> {}]
          IN  /\ projects' = updatedProjects
              /\ projectsCache' = Some(updatedProjects)
              /\ lastCacheUpdate' = now
              /\ isLoading' = FALSE
              /\ error' = NULL
              /\ createChains' = Append(createChains, c)
              /\ last' = ChainStep("createStart", c, <<"createBoard">>, FALSE)
    /\ nextId' = nextId + 1
    /\ UNCHANGED <<isRefreshing, now, workspaceId, boards, loadChains, refreshChains,
                   tracing, sync, opChains, timers, opCount, getBoardsCalls, returned>>

\* lines 552-564: the confirmed project replaces the optimistic one
createConfirm(c) ==
    LET project == confirmedProject(c)
        updatedProjects == mapById(projects, c.tempId, LAMBDA p : project)
    IN  /\ projects' = updatedProjects
        /\ projectsCache' = Some(updatedProjects)
        /\ lastCacheUpdate' = now
        /\ isLoading' = FALSE
        /\ error' = NULL
        /\ last' = ChainStep("createOk", c, <<>>, FALSE)
        /\ UNCHANGED isRefreshing

createCatch_NoMessage(c, e) ==
    LET updatedProjects ==
            mapById(projects, c.tempId, LAMBDA p : [p EXCEPT !.syncStatus = "error"])
    IN  /\ projects' = updatedProjects
        /\ projectsCache' = Some(updatedProjects)
        /\ lastCacheUpdate' = now
        /\ isLoading' = FALSE
        /\ error' = NULL
        /\ last' = ChainStep("createFail", c, <<>>, TRUE)
        /\ UNCHANGED isRefreshing

\* lines 567-589: the catch around the whole creation
createCatch(c, e) ==
    LET msg == messageOf(e, "Erreur lors de la creation du projet")
        updatedProjects ==
            mapById(projects, c.tempId,
                    LAMBDA p : [p EXCEPT !.syncStatus = "error", !.syncError = msg])
    IN  /\ projects' = updatedProjects
        /\ projectsCache' = Some(updatedProjects)
        /\ lastCacheUpdate' = now
        /\ isLoading' = FALSE
        /\ error' = NULL
        /\ last' = ChainStep("createFail", c, <<>>, TRUE)
        /\ UNCHANGED isRefreshing

\* the chain moves on to its next await, or ends with the final update
Continue(k, c, call) ==
    IF c.pc = "final"
    THEN /\ createConfirm(c)
         /\ createChains' = RemoveAt(createChains, k)
    ELSE /\ createChains' = [createChains EXCEPT ![k] = c]
         /\ last' = ChainStep(call, c, <<c.pc>>, FALSE)
         /\ UNCHANGED store

Abort(k, e) ==
    /\ createCatch(createChains[k], e)
    /\ createChains' = RemoveAt(createChains, k)

\* project.modules.push(...) after the tasks of a module (lines 522-532),
\* then the next module or the removal of the default group
afterModule(c) ==
    LET m == [id |-> c.groupId, name |-> c.input.modules[c.mi],
              mondayGroupId |-> c.groupId, tasks |-> c.tasks,
              status |-> "not_started"]
        d == [c EXCEPT !.modules = Append(@, m), !.tasks = <<>>]
    IN  IF c.mi < Len(c.input.modules)
        THEN [d EXCEPT !.pc = "createGroup", !.mi = c.mi + 1]
        ELSE [d EXCEPT !.pc = "getBoardGroups"]

\* createdTasks.push(task), then the next task of the module
afterTask(c, task) ==
    LET d == [c EXCEPT !.tasks = Append(@, task), !.subTasks = <<>>]
    IN  IF c.ti < Len(getDefaultTasksForModule(c.input.modules[c.mi]))
        THEN [d EXCEPT !.pc = "createItem", !.ti = c.ti + 1]
        ELSE afterModule(d)

\* the task being created: lines 458-466 with the sub-tasks pushed so far
createdTask(c) ==
    [id |-> c.itemId, name |-> getDefaultTasksForModule(c.input.modules[c.mi])[c.ti].name,
     mondayItemId |-> c.itemId, status |-> "todo", subTasks |-> c.subTasks]

\* createdTask.subTasks.push(...), then the next sub-task of the task
afterSubTask(c, subTask) ==
    LET d == [c EXCEPT !.subTasks = Append(@, subTask)]
        tpl == getDefaultTasksForModule(c.input.modules[c.mi])[c.ti]
    IN  IF c.si < Len(tpl.subTasks)
        THEN [d EXCEPT !.pc = "createSubItem", !.si = c.si + 1]
        ELSE afterTask(d, createdTask(d))

AtPc(k, pcs) == k \in 1..Len(createChains) /\ createChains[k].pc \in pcs

\* createBoard answered (lines 397-415)
CreateBoardOk ==
    /\ \E k \in 1..Len(createChains) :
          /\ AtPc(k, {"createBoard"})
          /\ LET c == createChains[k]
                 id == "nb" \o c.tempId
             IN  /\ boards' = remoteCreateBoard(boards, id, c.input.name)
                 /\ Continue(k, [c EXCEPT !.boardId = id, !.pc = "colStatus"], "createBoardOk")
    /\ UNCHANGED <<now, workspaceId, nextId, loadChains, refreshChains, tracing, sync, opChains, timers, opCount,
                   getBoardsCalls, returned>>

\* createBoard failed: the outer catch
CreateBoardFail ==
    /\ \E k \in 1..Len(createChains) : \E e \in Thrown :
          /\ AtPc(k, {"createBoard"})
          /\ Abort(k, e)
    /\ UNCHANGED <<now, workspaceId, boards, nextId, loadChains, refreshChains,
                   tracing, sync, opChains, timers, opCount, getBoardsCalls, returned>>

\* createColumn answered or failed, either is only logged (lines 417-428);
\* after the second one the loop over the modules starts
CreateColumnSettle ==
    /\ \E k \in 1..Len(createChains) :
          /\ AtPc(k, {"colStatus", "colPerson"})
          /\ LET c == createChains[k]
             IN  Continue(k,
                    IF c.pc = "colStatus" THEN [c EXCEPT !.pc = "colPerson"]
                    ELSE IF Len(c.input.modules) = 0 THEN [c EXCEPT !.pc = "getBoardGroups"]
                    ELSE [c EXCEPT !.pc = "createGroup", !.mi = 1],
                    "createColumn")
    /\ UNCHANGED <<now, workspaceId, boards, nextId, loadChains, refreshChains,
                   tracing, sync, opChains, timers, opCount, getBoardsCalls, returned>>

\* createGroup answered (lines 437-445)
CreateGroupOk ==
    /\ \E k \in 1..Len(createChains) :
          /\ AtPc(k, {"createGroup"})
          /\ LET c == createChains[k]
                 id == c.boardId \o "_g" \o ToString(c.mi)
                 d == [c EXCEPT !.groupId = id, !.tasks = <<>>]
             IN  /\ boards' = remoteCreateGroup(boards, c.boardId, id, c.input.modules[c.mi])
                 /\ Continue(k,
                       IF Len(getDefaultTasksForModule(c.input.modules[c.mi])) = 0
                       THEN afterModule(d)
                       ELSE [d EXCEPT !.pc = "createItem", !.ti = 1],
                       "createGroupOk")
    /\ UNCHANGED <<now, workspaceId, nextId, loadChains, refreshChains, tracing, sync, opChains, timers, opCount,
                   getBoardsCalls, returned>>

\* createGroup failed: nothing catches it before the outer catch
CreateGroupFail ==
    /\ \E k \in 1..Len(createChains) : \E e \in Thrown :
          /\ AtPc(k, {"createGroup"})
          /\ Abort(k, e)
    /\ UNCHANGED <<now, workspaceId, boards, nextId, loadChains, refreshChains,
                   tracing, sync, opChains, timers, opCount, getBoardsCalls, returned>>

\* createItem answered (lines 450-469, 503)
CreateItemOk ==
    /\ \E k \in 1..Len(createChains) :
          /\ AtPc(k, {"createItem"})
          /\ LET c == createChains[k]
                 tpl == getDefaultTasksForModule(c.input.modules[c.mi])[c.ti]
                 id == c.groupId \o "_i" \o ToString(c.ti)
                 d == [c EXCEPT !.itemId = id, !.subTasks = <<>>]
             IN  /\ boards' = remoteCreateItem(boards, c.boardId, c.groupId, id, tpl.name)
                 /\ Continue(k,
                       IF Len(tpl.subTasks) > 0
                       THEN [d EXCEPT !.pc = "createSubItem", !.si = 1]
                       ELSE afterTask(d, createdTask(d)),
                       "createItemOk")
    /\ UNCHANGED <<now, workspaceId, nextId, loadChains, refreshChains, tracing, sync, opChains, timers, opCount,
                   getBoardsCalls, returned>>

CreateItemFail_KeepsId ==
    /\ \E k \in 1..Len(createChains) :
          /\ AtPc(k, {"createItem"})
          /\ LET c == createChains[k]
                 tpl == getDefaultTasksForModule(c.input.modules[c.mi])[c.ti]
                 id == "temp_" \o c.groupId \o "_i" \o ToString(c.ti)
                 task == [id |-> id, name |-> tpl.name, mondayItemId |-> id,
                          status |-> "todo", subTasks |-> tpl.subTasks]
                 d == [c EXCEPT !.failed = @ \cup {<<c.mi, c.ti, 0>>}]
             IN  Continue(k, afterTask(d, task), "createItemFail")
    /\ UNCHANGED <<now, workspaceId, boards, nextId, loadChains, refreshChains,
                   tracing, sync, opChains, timers, opCount, getBoardsCalls, returned>>

\* createItem failed: a local-only task takes its place (lines 504-515)
CreateItemFail ==
    /\ \E k \in 1..Len(createChains) :
          /\ AtPc(k, {"createItem"})
          /\ LET c == createChains[k]
                 tpl == getDefaultTasksForModule(c.input.modules[c.mi])[c.ti]
                 task == [id |-> "temp_" \o c.groupId \o "_i" \o ToString(c.ti),
                          name |-> tpl.name, mondayItemId |-> NULL,
                          status |-> "todo", subTasks |-> tpl.subTasks]
                 d == [c EXCEPT !.failed = @ \cup {<<c.mi, c.ti, 0>>}]
             IN  Continue(k, afterTask(d, task), "createItemFail")
    /\ UNCHANGED <<now, workspaceId, boards, nextId, loadChains, refreshChains,
                   tracing, sync, opChains, timers, opCount, getBoardsCalls, returned>>

\* createSubItem answered (lines 472-487)
CreateSubItemOk ==
    /\ \E k \in 1..Len(createChains) :
          /\ AtPc(k, {"createSubItem"})
          /\ LET c == createChains[k]
                 tpl == getDefaultTasksForModule(c.input.modules[c.mi])[c.ti].subTasks[c.si]
                 id == c.itemId \o "_s" \o ToString(c.si)
                 subTask == [id |-> id, name |-> tpl.name, mondaySubItemId |-> id,
                             status |-> tpl.status]
             IN  Continue(k, afterSubTask(c, subTask), "createSubItemOk")
    /\ UNCHANGED <<now, workspaceId, boards, nextId, loadChains, refreshChains,
                   tracing, sync, opChains, timers, opCount, getBoardsCalls, returned>>

\* createSubItem failed: a local-only sub-task takes its place (lines 488-499)
CreateSubItemFail ==
    /\ \E k \in 1..Len(createChains) :
          /\ AtPc(k, {"createSubItem"})
          /\ LET c == createChains[k]
                 tpl == getDefaultTasksForModule(c.input.modules[c.mi])[c.ti].subTasks[c.si]
                 subTask == [id |-> "temp_sub_" \o c.itemId \o "_s" \o ToString(c.si),
                             name |-> tpl.name, mondaySubItemId |-> NULL,
                             status |-> tpl.status]
                 d == [c EXCEPT !.failed = @ \cup {<<c.mi, c.ti, c.si>>}]
             IN  Continue(k, afterSubTask(d, subTask), "createSubItemFail")
    /\ UNCHANGED <<now, workspaceId, boards, nextId, loadChains, refreshChains,
                   tracing, sync, opChains, timers, opCount, getBoardsCalls, returned>>

\* getBoardGroups answered or failed (lines 536-547): with a default group
\* found deleteGroup is awaited, otherwise the final update follows
GetBoardGroupsSettle ==
    /\ \E k \in 1..Len(createChains) : \E ok \in BOOLEAN :
          /\ AtPc(k, {"getBoardGroups"})
          /\ LET c == createChains[k]
             IN  Continue(k,
                    IF ok /\ hasDefaultGroup(boards, c.boardId)
                    THEN [c EXCEPT !.pc = "deleteGroup"]
                    ELSE [c EXCEPT !.pc = "final"],
                    "getBoardGroups")
    /\ UNCHANGED <<now, workspaceId, boards, nextId, loadChains, refreshChains,
                   tracing, sync, opChains, timers, opCount, getBoardsCalls, returned>>

\* deleteGroup of the default group answered or failed, then the final update
DeleteDefaultGroupSettle ==
    /\ \E k \in 1..Len(createChains) : \E ok \in BOOLEAN :
          /\ AtPc(k, {"deleteGroup"})
          /\ LET c == createChains[k]
             IN  /\ boards' = IF ok THEN remoteDeleteGroup(boards, c.boardId, defaultGroup.id)
                              ELSE boards
                 /\ Continue(k, [c EXCEPT !.pc = "final"], "deleteGroup")
    /\ UNCHANGED <<now, workspaceId, nextId, loadChains, refreshChains, tracing, sync, opChains, timers, opCount,
                   getBoardsCalls, returned>>

NextCreate ==
    \/ CreateProject
    \/ CreateBoardOk
    \/ CreateBoardFail
    \/ CreateColumnSettle
    \/ CreateGroupOk
    \/ CreateGroupFail
    \/ CreateItemOk
    \/ CreateItemFail
    \/ CreateSubItemOk
    \/ CreateSubItemFail
    \/ GetBoardGroupsSettle
    \/ DeleteDefaultGroupSettle

\* createProject alone: no other operation runs
SpecCreateAlone == Init /\ [][NextCreate]_vars

\* createProject beside the background refresh of the running application
\* (the periodic timer, the delayed reconciliation after a module change)
NextCreateSync ==
    \/ NextCreate
    \/ RefreshCall
    \/ RefreshSettleOk
    \/ RefreshSettleFail

SpecCreate == Init /\ [][NextCreateSync]_vars

\* the first createProject of the session
CreateFirst ==
    /\ nextId = 1
    /\ CreateProject

\* one createProject beside the background refresh, and the refreshes that
\* follow it
NextCreateOnce ==
    \/ CreateFirst
    \/ CreateBoardOk
    \/ CreateBoardFail
    \/ CreateColumnSettle
    \/ CreateGroupOk
    \/ CreateGroupFail
    \/ CreateItemOk
    \/ CreateItemFail
    \/ CreateSubItemOk
    \/ CreateSubItemFail
    \/ GetBoardGroupsSettle
    \/ DeleteDefaultGroupSettle
    \/ RefreshCall
    \/ RefreshSettleOk
    \/ RefreshSettleFail

SpecCreateOnce == Init /\ [][NextCreateOnce]_vars

\* a gateway call of the createProject chain is pending: one of these answers
\* is enabled exactly while a chain is at an await
CreateChainSettles ==
    \/ CreateBoardFail
    \/ CreateColumnSettle
    \/ CreateGroupFail
    \/ CreateItemFail
    \/ CreateSubItemFail
    \/ GetBoardGroupsSettle
    \/ DeleteDefaultGroupSettle

\* every gateway call that createProject issues is answered in the end and
\* the event loop runs the continuation of the chain: no chain stays at an
\* await for ever.  Whether the answer is a success or a failure is left open,
\* either moves the chain on.
SpecCreateOnceFair ==
    /\ SpecCreateOnce
    /\ WF_vars(CreateChainSettles)

----
(* What the module and sub-task operations share *)

\* state.projects.find(p => p.id === id)
hasId(xs, id) == \E i \in 1..Len(xs) : xs[i].id = id
findById(xs, id) ==
    xs[CHOOSE i \in 1..Len(xs) : xs[i].id = id /\ \A j \in 1..(i - 1) : xs[j].id # id]

\* an operation's catch that also drops the snapshot
opCatch_DropsSnapshot(msg) ==
    /\ error' = msg
    /\ isLoading' = FALSE
    /\ projectsCache' = NoCache
    /\ lastCacheUpdate' = NoTime
    /\ UNCHANGED <<projects, isRefreshing>>

\* the catch of an operation: set({ error, isLoading: false }); throw error
opCatch(msg) ==
    /\ error' = msg
    /\ isLoading' = FALSE
    /\ UNCHANGED <<projects, projectsCache, lastCacheUpdate, isRefreshing>>

\* a chain of an operation at its await
OpChain(op, pc, arg, boardId) ==
    [op |-> op, pc |-> pc, arg |-> arg, boardId |-> boardId, groupId |-> NULL,
     itemId |-> NULL, ti |-> 0, tasks |-> <<>>, fresh |-> opCount + 1,
     project |-> NULL, captured |-> <<>>]

AtOp(k, op, pc) ==
    /\ k \in 1..Len(opChains)
    /\ opChains[k].op = op
    /\ opChains[k].pc = pc

\* what the operations may be called with
ProjectIds == {projects[i].id : i \in 1..Len(projects)} \cup {"nope"}
ModuleIds(projectId) ==
    IF hasId(projects, projectId)
    THEN LET ms == findById(projects, projectId).modules
         IN  {ms[i].id : i \in 1..Len(ms)} \cup {"nope"}
    ELSE {"nope"}
ModuleNames == {"Infrastructure", "Network"}

hasBoard(bs, boardId) == \E i \in 1..Len(bs) : bs[i].id = boardId
hasGroup(bs, boardId, groupId) ==
    \E i \in 1..Len(bs) :
        /\ bs[i].id = boardId
        /\ \E j \in 1..Len(bs[i].groups) : bs[i].groups[j].id = groupId

\* setTimeout(() => get().refreshProjectsInBackground(), 1000) has come due
TimerFire ==
    /\ timers > 0
    /\ timers' = timers - 1
    /\ StartRefresh
    /\ last' = Step("refresh", "timer", FALSE, IF isRefreshing THEN "busy" ELSE "run",
                    1, refreshIssues, FALSE)
    /\ UNCHANGED <<projects, projectsCache, lastCacheUpdate, isLoading, error, now,
                   workspaceId, boards, nextId, loadChains, createChains, opChains,
                   opCount, tracing, sync, returned>>

----
(* addModuleToProject *)

\* createItem without a group: the platform puts the item in the top group
remoteCreateItemTop(bs, boardId, id, name) ==
    [i \in 1..Len(bs) |->
        IF bs[i].id = boardId /\ Len(bs[i].groups) > 0
        THEN [bs[i] EXCEPT !.groups[1].items =
                Append(@, [id |-> id, name |-> name, column_values |-> <<>>])]
        ELSE bs[i]]

DuplicateModule == "Le module existe deja dans ce projet"

\* lines 594-628: up to the await of createGroup; it is at most the maxOps-th
\* operation and at most inFlight operations are awaiting the gateway after it
addModuleToProject(maxOps, inFlight) ==
    /\ opCount < maxOps
    /\ Len(opChains) < inFlight
    /\ \E projectId \in ProjectIds : \E moduleName \in ModuleNames :
          LET arg == [NoArg EXCEPT !.projectId = projectId, !.name = moduleName]
          IN  IF ~hasId(projects, projectId)
              THEN /\ opCatch("Project not found")
                   /\ last' = OpStep("addModule", "addModule", "notFound", arg, <<>>, TRUE)
                   /\ UNCHANGED opChains
              ELSE LET project == findById(projects, projectId)
                   IN  IF \E i \in 1..Len(project.modules) :
                               project.modules[i].name = moduleName
                       THEN /\ isLoading' = FALSE
                            /\ error' = DuplicateModule
                            /\ last' = OpStep("addModule", "addModule", "duplicate",
                                              arg, <<>>, FALSE)
                            /\ UNCHANGED <<projects, projectsCache, lastCacheUpdate,
                                           isRefreshing, opChains>>
                       ELSE /\ isLoading' = TRUE
                            /\ error' = NULL
                            /\ opChains' = Append(opChains,
                                  OpChain("addModule", "createGroup", arg,
                                          project.mondayBoardId))
                            /\ last' = OpStep("addModule", "addModule", "createGroup",
                                              arg, <<"createGroup">>, FALSE)
                            /\ UNCHANGED <<projects, projectsCache, lastCacheUpdate,
                                           isRefreshing>>
    /\ opCount' = opCount + 1
    /\ UNCHANGED <<now, workspaceId, boards, nextId, loadChains, refreshChains,
                   createChains, timers, tracing, sync, getBoardsCalls, returned>>

AddModuleToProject == addModuleToProject(MaxOps, MaxOpChains)

\* addModuleToProject called while another addModuleToProject awaits the gateway
AddModuleWhileAwaiting ==
    /\ \E k \in 1..Len(opChains) : opChains[k].op = "addModule"
    /\ addModuleToProject(MaxOps + 1, MaxOpChains + 1)

\* addModuleToProject called again after one has settled
AddModuleAgain ==
    /\ opCount > 0
    /\ opChains = <<>>
    /\ addModuleToProject(MaxOps + 1, MaxOpChains)

\* lines 676-703: the new module enters projects and the snapshot
addModuleInstall(c) ==
    LET newModule ==
            [id |-> IF c.groupId # NULL THEN c.groupId
                    ELSE "temp_m" \o ToString(c.fresh),
             name |-> c.arg.name, mondayGroupId |-> c.groupId, tasks |-> c.tasks,
             status |-> "not_started"]
        updatedProjects ==
            mapById(projects, c.arg.projectId,
                    LAMBDA p : [p EXCEPT !.modules = Append(@, newModule)])
    IN  /\ projects' = updatedProjects
        /\ projectsCache' = Some(updatedProjects)
        /\ lastCacheUpdate' = now
        /\ isLoading' = FALSE
        /\ error' = NULL
        /\ UNCHANGED isRefreshing

\* the chain moves on to its next await, or ends with the install and the
\* setTimeout of lines 705-708
addModuleContinue(k, c, step) ==
    IF c.pc = "final"
    THEN /\ addModuleInstall(c)
         /\ opChains' = RemoveAt(opChains, k)
         /\ timers' = timers + 1
         /\ last' = OpStep("addModuleOk", "addModule", step, c.arg, <<>>, FALSE)
    ELSE /\ opChains' = [opChains EXCEPT ![k] = c]
         /\ last' = OpStep(step, "addModule", c.pc, c.arg, <<c.pc>>, FALSE)
         /\ UNCHANGED <<store, timers>>

\* after createGroup: the loop over the default tasks
addModuleTasks(c) ==
    IF Len(getDefaultTasksForModule(c.arg.name)) = 0
    THEN [c EXCEPT !.pc = "final"]
    ELSE [c EXCEPT !.pc = "createItem", !.ti = 1]

\* createdTasks.push(task), then the next default task
addModuleAfterTask(c, task) ==
    LET d == [c EXCEPT !.tasks = Append(@, task)]
    IN  IF c.ti < Len(getDefaultTasksForModule(c.arg.name))
        THEN [d EXCEPT !.ti = c.ti + 1]
        ELSE [d EXCEPT !.pc = "final"]

\* createGroup answered (lines 618-623)
AddModuleGroupOk ==
    /\ \E k \in 1..Len(opChains) :
          /\ AtOp(k, "addModule", "createGroup")
          /\ LET c == opChains[k]
                 id == "ng" \o ToString(c.fresh)
             IN  /\ hasBoard(boards, c.boardId)
                 /\ boards' = remoteCreateGroup(boards, c.boardId, id, c.arg.name)
                 /\ addModuleContinue(k, addModuleTasks([c EXCEPT !.groupId = id]),
                                      "createGroupOk")
    /\ UNCHANGED <<now, workspaceId, nextId, loadChains, refreshChains, createChains,
                   opCount, tracing, sync, getBoardsCalls, returned>>

\* createGroup failed: the module goes on without a group (lines 624-628)
AddModuleGroupFail ==
    /\ \E k \in 1..Len(opChains) :
          /\ AtOp(k, "addModule", "createGroup")
          /\ addModuleContinue(k, addModuleTasks(opChains[k]), "createGroupFail")
    /\ UNCHANGED <<now, workspaceId, boards, nextId, loadChains, refreshChains,
                   createChains, opCount, tracing, sync, getBoardsCalls, returned>>

\* createItem answered (lines 636-654)
AddModuleItemOk ==
    /\ \E k \in 1..Len(opChains) :
          /\ AtOp(k, "addModule", "createItem")
          /\ LET c == opChains[k]
                 tpl == getDefaultTasksForModule(c.arg.name)[c.ti]
                 id == "ni" \o ToString(c.fresh) \o "_" \o ToString(c.ti)
                 task == [id |-> id, name |-> tpl.name, mondayItemId |-> id,
                          status |-> "todo", subTasks |-> <<>>]
             IN  /\ hasBoard(boards, c.boardId)
                 /\ boards' = IF c.groupId # NULL
                              THEN remoteCreateItem(boards, c.boardId, c.groupId,
                                                    id, tpl.name)
                              ELSE remoteCreateItemTop(boards, c.boardId, id, tpl.name)
                 /\ addModuleContinue(k, addModuleAfterTask(c, task), "createItemOk")
    /\ UNCHANGED <<now, workspaceId, nextId, loadChains, refreshChains, createChains,
                   opCount, tracing, sync, getBoardsCalls, returned>>

\* createItem failed: a local-only task takes its place (lines 655-667)
AddModuleItemFail ==
    /\ \E k \in 1..Len(opChains) :
          /\ AtOp(k, "addModule", "createItem")
          /\ LET c == opChains[k]
                 tpl == getDefaultTasksForModule(c.arg.name)[c.ti]
                 task == [id |-> "temp_" \o ToString(c.fresh) \o "_" \o ToString(c.ti),
                          name |-> tpl.name, mondayItemId |-> NULL,
                          status |-> "todo", subTasks |-> <<>>]
             IN  addModuleContinue(k, addModuleAfterTask(c, task), "createItemFail")
    /\ UNCHANGED <<now, workspaceId, boards, nextId, loadChains, refreshChains,
                   createChains, opCount, tracing, sync, getBoardsCalls, returned>>

----
(* removeModuleFromProject, updateModuleInProject, refreshProject *)

\* lines 721-735: up to the await of deleteGroup
RemoveModuleFromProject ==
    /\ opCount < MaxOps
    /\ Len(opChains) < MaxOpChains
    /\ \E projectId \in ProjectIds : \E moduleId \in ModuleIds(projectId) :
          LET arg == [NoArg EXCEPT !.projectId = projectId, !.moduleId = moduleId]
          IN  IF ~hasId(projects, projectId)
              THEN /\ opCatch("Project not found")
                   /\ last' = OpStep("removeModule", "removeModule", "notFound",
                                     arg, <<>>, TRUE)
                   /\ UNCHANGED opChains
              ELSE IF ~hasId(findById(projects, projectId).modules, moduleId)
              THEN /\ opCatch("Module not found")
                   /\ last' = OpStep("removeModule", "removeModule", "notFound",
                                     arg, <<>>, TRUE)
                   /\ UNCHANGED opChains
              ELSE LET project == findById(projects, projectId)
                       module == findById(project.modules, moduleId)
                       c == OpChain("removeModule", "deleteGroup", arg,
                                    project.mondayBoardId)
                   IN  /\ isLoading' = TRUE
                       /\ error' = NULL
                       /\ opChains' = Append(opChains,
                                             [c EXCEPT !.groupId = module.mondayGroupId])
                       /\ last' = OpStep("removeModule", "removeModule", "deleteGroup",
                                         arg, <<"deleteGroup">>, FALSE)
                       /\ UNCHANGED <<projects, projectsCache, lastCacheUpdate,
                                      isRefreshing>>
    /\ opCount' = opCount + 1
    /\ UNCHANGED <<now, workspaceId, boards, nextId, loadChains, refreshChains,
                   createChains, timers, tracing, sync, getBoardsCalls, returned>>

\* lines 737-751: the module leaves projects and the snapshot
removeModuleInstall(c) ==
    LET updatedProjects ==
            mapById(projects, c.arg.projectId,
                    LAMBDA p : [p EXCEPT !.modules =
                                   SelectSeq(@, LAMBDA m : m.id # c.arg.moduleId)])
    IN  /\ projects' = updatedProjects
        /\ projectsCache' = Some(updatedProjects)
        /\ lastCacheUpdate' = now
        /\ isLoading' = FALSE
        /\ UNCHANGED <<error, isRefreshing>>

\* deleteGroup answered: the local removal, then the setTimeout (lines 753-756)
RemoveModuleOk ==
    /\ \E k \in 1..Len(opChains) :
          /\ AtOp(k, "removeModule", "deleteGroup")
          /\ LET c == opChains[k]
             IN  /\ hasGroup(boards, c.boardId, c.groupId)
                 /\ boards' = remoteDeleteGroup(boards, c.boardId, c.groupId)
                 /\ removeModuleInstall(c)
                 /\ last' = OpStep("removeModuleOk", "removeModule", "deleteGroup",
                                   c.arg, <<>>, FALSE)
          /\ opChains' = RemoveAt(opChains, k)
    /\ timers' = timers + 1
    /\ UNCHANGED <<now, workspaceId, nextId, loadChains, refreshChains, createChains,
                   opCount, tracing, sync, getBoardsCalls, returned>>

\* deleteGroup failed: the catch of lines 757-764
RemoveModuleFail ==
    /\ \E k \in 1..Len(opChains) : \E e \in Thrown :
          /\ AtOp(k, "removeModule", "deleteGroup")
          /\ opCatch(messageOf(e, "Failed to remove module"))
          /\ last' = OpStep("removeModuleFail", "removeModule", "deleteGroup",
                            opChains[k].arg, <<>>, TRUE)
          /\ opChains' = RemoveAt(opChains, k)
    /\ UNCHANGED <<now, workspaceId, boards, nextId, loadChains, refreshChains,
                   createChains, timers, opCount, tracing, sync, getBoardsCalls, returned>>

\* { ...m, ...updates }
spread(m, updates) ==
    [f \in DOMAIN m |-> IF f \in DOMAIN updates THEN updates[f] ELSE m[f]]

\* what updateModuleInProject is called with
ModuleUpdates ==
    { [status |-> "in_progress"],
      [tasks |-> << [id |-> "u1", name |-> "Review", mondayItemId |-> NULL,
                     status |-> "done", subTasks |-> <<>>] >>] }

\* lines 769-812: no gateway call, one state update
UpdateModuleInProject ==
    /\ opCount < MaxOps
    /\ \E projectId \in ProjectIds : \E moduleId \in ModuleIds(projectId) :
       \E updates \in ModuleUpdates :
          LET arg == [NoArg EXCEPT !.projectId = projectId, !.moduleId = moduleId]
          IN  IF ~hasId(projects, projectId)
              THEN /\ opCatch("Project not found")
                   /\ last' = OpStep("updateModule", "updateModule", "notFound",
                                     arg, <<>>, TRUE)
              ELSE IF ~hasId(findById(projects, projectId).modules, moduleId)
              THEN /\ opCatch("Module not found")
                   /\ last' = OpStep("updateModule", "updateModule", "notFound",
                                     arg, <<>>, TRUE)
              ELSE /\ projects' =
                        mapById(projects, projectId,
                                LAMBDA p : [p EXCEPT !.modules =
                                    mapById(@, moduleId, LAMBDA m : spread(m, updates))])
                   /\ isLoading' = FALSE
                   /\ error' = NULL
                   /\ last' = OpStep("updateModule", "updateModule", "done",
                                     arg, <<>>, FALSE)
                   /\ UNCHANGED <<projectsCache, lastCacheUpdate, isRefreshing>>
    /\ opCount' = opCount + 1
    /\ UNCHANGED <<now, workspaceId, boards, nextId, loadChains, refreshChains,
                   createChains, opChains, timers, tracing, sync, getBoardsCalls, returned>>

\* lines 815-825: up to the await of getBoard
RefreshProject ==
    /\ opCount < MaxOps
    /\ Len(opChains) < MaxOpChains
    /\ \E projectId \in ProjectIds :
          LET arg == [NoArg EXCEPT !.projectId = projectId]
          IN  IF ~hasId(projects, projectId)
              THEN /\ opCatch("Project not found")
                   /\ last' = OpStep("refreshProject", "refreshProject", "notFound",
                                     arg, <<>>, TRUE)
                   /\ UNCHANGED opChains
              ELSE LET project == findById(projects, projectId)
                       c == OpChain("refreshProject", "getBoard", arg,
                                    project.mondayBoardId)
                   IN  /\ isLoading' = TRUE
                       /\ error' = NULL
                       /\ opChains' = Append(opChains, [c EXCEPT !.project = project])
                       /\ last' = OpStep("refreshProject", "refreshProject", "getBoard",
                                         arg, <<"getBoard">>, FALSE)
                       /\ UNCHANGED <<projects, projectsCache, lastCacheUpdate,
                                      isRefreshing>>
    /\ opCount' = opCount + 1
    /\ UNCHANGED <<now, workspaceId, boards, nextId, loadChains, refreshChains,
                   createChains, timers, tracing, sync, getBoardsCalls, returned>>

\* lines 828-873: the project as it was when refreshProject was called, with
\* the name and the modules of the board
updatedProject(project, board) ==
    [project EXCEPT
        !.name = board.name,
        !.modules = [i \in 1..Len(board.groups) |-> moduleOfGroup(board.groups[i])]]

\* getBoard answered (lines 826-880)
RefreshProjectOk ==
    /\ \E k \in 1..Len(opChains) :
          /\ AtOp(k, "refreshProject", "getBoard")
          /\ LET c == opChains[k]
             IN  /\ hasBoard(boards, c.boardId)
                 /\ projects' = mapById(projects, c.arg.projectId,
                        LAMBDA p : updatedProject(c.project, findById(boards, c.boardId)))
                 /\ isLoading' = FALSE
                 /\ last' = OpStep("refreshProjectOk", "refreshProject", "getBoard",
                                   c.arg, <<>>, FALSE)
          /\ opChains' = RemoveAt(opChains, k)
    /\ UNCHANGED <<projectsCache, lastCacheUpdate, isRefreshing, error, now,
                   workspaceId, boards, nextId, loadChains, refreshChains, createChains,
                   timers, opCount, tracing, sync, getBoardsCalls, returned>>

\* the catch of lines 881-888 without its throw
RefreshProjectFail_Swallows ==
    /\ \E k \in 1..Len(opChains) : \E e \in Thrown :
          /\ AtOp(k, "refreshProject", "getBoard")
          /\ opCatch(messageOf(e, "Failed to refresh project"))
          /\ last' = OpStep("refreshProjectFail", "refreshProject", "getBoard",
                            opChains[k].arg, <<>>, FALSE)
          /\ opChains' = RemoveAt(opChains, k)
    /\ UNCHANGED <<now, workspaceId, boards, nextId, loadChains, refreshChains,
                   createChains, timers, opCount, tracing, sync, getBoardsCalls, returned>>

\* getBoard failed, or answered without the board: the catch of lines 881-888
RefreshProjectFail ==
    /\ \E k \in 1..Len(opChains) : \E e \in Thrown :
          /\ AtOp(k, "refreshProject", "getBoard")
          /\ opCatch(messageOf(e, "Failed to refresh project"))
          /\ last' = OpStep("refreshProjectFail", "refreshProject", "getBoard",
                            opChains[k].arg, <<>>, TRUE)
          /\ opChains' = RemoveAt(opChains, k)
    /\ UNCHANGED <<now, workspaceId, boards, nextId, loadChains, refreshChains,
                   createChains, timers, opCount, tracing, sync, getBoardsCalls, returned>>

\* the application starts with a load
LoadAtStart ==
    /\ opCount = 0
    /\ nextId = 1
    /\ error = NULL
    /\ ~projectsCache.some
    /\ loadChains = <<>>
    /\ LoadCallWith(TRUE)

NextModule ==
    \/ LoadAtStart
    \/ LoadSettleOk
    \/ AddModuleToProject
    \/ AddModuleGroupOk
    \/ AddModuleGroupFail
    \/ AddModuleItemOk
    \/ AddModuleItemFail
    \/ RemoveModuleFromProject
    \/ RemoveModuleOk
    \/ RemoveModuleFail
    \/ UpdateModuleInProject
    \/ RefreshProject
    \/ RefreshProjectOk
    \/ RefreshProjectFail
    \/ TimerFire
    \/ RefreshSettleOk
    \/ RefreshSettleFail

\* the module operations on loaded projects, with the refresh they schedule
SpecModule == Init /\ [][NextModule]_vars

NextModuleOverlap ==
    \/ LoadAtStart
    \/ LoadSettleOk
    \/ AddModuleToProject
    \/ AddModuleWhileAwaiting
    \/ AddModuleAgain
    \/ AddModuleGroupOk
    \/ AddModuleGroupFail
    \/ AddModuleItemOk
    \/ AddModuleItemFail

\* two addModuleToProject calls on loaded projects, one after the other or
\* the second while the first awaits the gateway
SpecModuleOverlap == Init /\ [][NextModuleOverlap]_vars

----
(* addSubTaskToTask, updateSubTaskInTask, removeSubTaskFromTask *)

\* the nested map of the sub-task operations: f applied to the task
mapTask(ps, arg, f(_)) ==
    mapById(ps, arg.projectId,
        LAMBDA p : [p EXCEPT !.modules =
            mapById(@, arg.moduleId,
                LAMBDA m : [m EXCEPT !.tasks = mapById(@, arg.taskId, f)])])

\* project, module and task are found; otherwise the message that is thrown
notFound(arg) ==
    IF ~hasId(projects, arg.projectId) THEN "Projet introuvable"
    ELSE IF ~hasId(findById(projects, arg.projectId).modules, arg.moduleId)
    THEN "Module introuvable"
    ELSE IF ~hasId(findById(findById(projects, arg.projectId).modules,
                            arg.moduleId).tasks, arg.taskId)
    THEN "Tache introuvable"
    ELSE NULL

taskOf(arg) ==
    findById(findById(findById(projects, arg.projectId).modules, arg.moduleId).tasks,
             arg.taskId)

\* what the sub-task operations may be called with
TaskIds(projectId, moduleId) ==
    IF hasId(projects, projectId)
       /\ hasId(findById(projects, projectId).modules, moduleId)
    THEN LET ts == findById(findById(projects, projectId).modules, moduleId).tasks
         IN  {ts[i].id : i \in 1..Len(ts)} \cup {"nope"}
    ELSE {"nope"}
TaskArgs ==
    UNION { UNION { { [NoArg EXCEPT !.projectId = projectId, !.moduleId = moduleId,
                                    !.taskId = taskId] :
                         taskId \in TaskIds(projectId, moduleId) } :
                    moduleId \in ModuleIds(projectId) } :
            projectId \in ProjectIds }
SubTaskIds(arg) ==
    IF notFound(arg) = NULL
    THEN LET sts == taskOf(arg).subTasks
         IN  {sts[i].id : i \in 1..Len(sts)} \cup {"nope"}
    ELSE {"nope"}
SubTaskInputs == { [name |-> "Check", status |-> "todo"] }
SubTaskUpdates == { [name |-> "Renamed"], [status |-> "done"] }

\* lines 930-983: the local change, then the await of createSubItem; at most
\* inFlight operations are awaiting the gateway after the call
addSubTaskToTask(inFlight) ==
    /\ opCount < MaxSubTaskOps
    /\ Len(opChains) < inFlight
    /\ \E arg0 \in TaskArgs : \E subTask \in SubTaskInputs :
          LET id == "subtask_" \o ToString(opCount + 1)
              arg == [arg0 EXCEPT !.subTaskId = id, !.name = subTask.name]
              newSubTask == [id |-> id, name |-> subTask.name,
                             mondaySubItemId |-> NULL, status |-> subTask.status]
              updatedProjects ==
                  mapTask(projects, arg,
                          LAMBDA t : [t EXCEPT !.subTasks = Append(@, newSubTask)])
          IN  IF notFound(arg) # NULL
              THEN /\ opCatch(notFound(arg))
                   /\ last' = OpStep("addSubTask", "addSubTask", "notFound",
                                     arg, <<>>, TRUE)
                   /\ UNCHANGED opChains
              ELSE /\ projects' = updatedProjects
                   /\ isLoading' = TRUE
                   /\ error' = NULL
                   /\ opChains' = Append(opChains,
                         [OpChain("addSubTask", "createSubItem", arg, NULL)
                            EXCEPT !.itemId = taskOf(arg).mondayItemId,
                                   !.captured = updatedProjects])
                   /\ last' = OpStep("addSubTask", "addSubTask", "createSubItem",
                                     arg, <<"createSubItem">>, FALSE)
                   /\ UNCHANGED <<projectsCache, lastCacheUpdate, isRefreshing>>
    /\ opCount' = opCount + 1
    /\ UNCHANGED <<now, workspaceId, boards, nextId, loadChains, refreshChains,
                   createChains, timers, tracing, sync, getBoardsCalls, returned>>

AddSubTaskToTask == addSubTaskToTask(MaxOpChains)

\* addSubTaskToTask called while another sub-task addition awaits createSubItem
AddSubTaskWhileAwaiting ==
    /\ \E k \in 1..Len(opChains) : AtOp(k, "addSubTask", "createSubItem")
    /\ addSubTaskToTask(MaxOpChains + 1)

\* createSubItem answered (lines 993-1031): the list computed before the
\* await, with the remote id on the new sub-task, is written to projects
AddSubTaskOk ==
    /\ \E k \in 1..Len(opChains) :
          /\ AtOp(k, "addSubTask", "createSubItem")
          /\ LET c == opChains[k]
                 id == "ns" \o ToString(c.fresh)
             IN  /\ c.itemId # NULL
                 /\ projects' =
                       mapTask(c.captured, c.arg,
                               LAMBDA t : [t EXCEPT !.subTasks =
                                   mapById(@, c.arg.subTaskId,
                                           LAMBDA st : [st EXCEPT !.mondaySubItemId = id])])
                 /\ last' = OpStep("addSubTaskOk", "addSubTask", "createSubItem",
                                   c.arg, <<>>, FALSE)
          /\ opChains' = RemoveAt(opChains, k)
    /\ isLoading' = FALSE
    /\ UNCHANGED <<projectsCache, lastCacheUpdate, isRefreshing, error, now,
                   workspaceId, boards, nextId, loadChains, refreshChains, createChains,
                   timers, opCount, tracing, sync, getBoardsCalls, returned>>

\* the gateway call of a sub-task operation failed: it is only logged
\* (lines 1032-1035, 1113-1116, 1185-1188), then set({ isLoading: false })
subTaskCatch_Surfaces(c, e) ==
    /\ isLoading' = FALSE
    /\ error' = messageOf(e, "Erreur")
    /\ last' = OpStep(c.op \o "Fail", c.op, c.pc, c.arg, <<>>, TRUE)
    /\ UNCHANGED <<projects, projectsCache, lastCacheUpdate, isRefreshing>>

subTaskCatch(c, e) ==
    /\ isLoading' = FALSE
    /\ last' = OpStep(c.op \o "Fail", c.op, c.pc, c.arg, <<>>, FALSE)
    /\ UNCHANGED <<projects, projectsCache, lastCacheUpdate, isRefreshing, error>>

SubTaskOps == {"addSubTask", "updateSubTask", "removeSubTask"}

SubTaskGatewayFail ==
    /\ \E k \in 1..Len(opChains) : \E e \in Thrown :
          /\ opChains[k].op \in SubTaskOps
          /\ subTaskCatch(opChains[k], e)
          /\ opChains' = RemoveAt(opChains, k)
    /\ UNCHANGED <<now, workspaceId, boards, nextId, loadChains, refreshChains,
                   createChains, timers, opCount, tracing, sync, getBoardsCalls, returned>>

\* subTask?.mondaySubItemId of the sub-task as it was before the local change
remoteIdOf(arg) ==
    LET sts == taskOf(arg).subTasks
    IN  IF hasId(sts, arg.subTaskId) THEN findById(sts, arg.subTaskId).mondaySubItemId
        ELSE NULL

\* the local change of a sub-task operation is written (lines 1104, 1179), then
\* the gateway is called if the sub-task has a remote id, else the operation ends
subTaskWrite(op, call, arg, updatedProjects) ==
    IF notFound(arg) # NULL
    THEN /\ opCatch(notFound(arg))
         /\ last' = OpStep(op, op, "notFound", arg, <<>>, TRUE)
         /\ UNCHANGED opChains
    ELSE /\ projects' = updatedProjects
         /\ error' = NULL
         /\ UNCHANGED <<projectsCache, lastCacheUpdate, isRefreshing>>
         /\ IF remoteIdOf(arg) # NULL
            THEN /\ isLoading' = TRUE
                 /\ opChains' = Append(opChains, OpChain(op, call, arg, NULL))
                 /\ last' = OpStep(op, op, call, arg, <<call>>, FALSE)
            ELSE /\ isLoading' = FALSE
                 /\ last' = OpStep(op, op, "local", arg, <<>>, FALSE)
                 /\ UNCHANGED opChains

\* lines 1052-1129
UpdateSubTaskInTask ==
    /\ opCount < MaxSubTaskOps
    /\ Len(opChains) < MaxOpChains
    /\ \E arg0 \in TaskArgs : \E subTaskId \in SubTaskIds(arg0) :
       \E updates \in SubTaskUpdates :
          LET arg == [arg0 EXCEPT !.subTaskId = subTaskId]
          IN  subTaskWrite("updateSubTask", "updateSubItem", arg,
                  mapTask(projects, arg,
                      LAMBDA t : [t EXCEPT !.subTasks =
                          mapById(@, subTaskId, LAMBDA st : spread(st, updates))]))
    /\ opCount' = opCount + 1
    /\ UNCHANGED <<now, workspaceId, boards, nextId, loadChains, refreshChains,
                   createChains, timers, tracing, sync, getBoardsCalls, returned>>

\* lines 1132-1201
RemoveSubTaskFromTask ==
    /\ opCount < MaxSubTaskOps
    /\ Len(opChains) < MaxOpChains
    /\ \E arg0 \in TaskArgs : \E subTaskId \in SubTaskIds(arg0) :
          LET arg == [arg0 EXCEPT !.subTaskId = subTaskId]
          IN  subTaskWrite("removeSubTask", "deleteSubItem", arg,
                  mapTask(projects, arg,
                      LAMBDA t : [t EXCEPT !.subTasks =
                          SelectSeq(@, LAMBDA st : st.id # subTaskId)]))
    /\ opCount' = opCount + 1
    /\ UNCHANGED <<now, workspaceId, boards, nextId, loadChains, refreshChains,
                   createChains, timers, tracing, sync, getBoardsCalls, returned>>

\* updateSubItem or deleteSubItem answered: set({ isLoading: false })
SubTaskGatewayOk ==
    /\ \E k \in 1..Len(opChains) :
          /\ opChains[k].op \in {"updateSubTask", "removeSubTask"}
          /\ last' = OpStep(opChains[k].op \o "Ok", opChains[k].op, opChains[k].pc,
                            opChains[k].arg, <<>>, FALSE)
          /\ opChains' = RemoveAt(opChains, k)
    /\ isLoading' = FALSE
    /\ UNCHANGED <<projects, projectsCache, lastCacheUpdate, isRefreshing, error, now,
                   workspaceId, boards, nextId, loadChains, refreshChains, createChains,
                   timers, opCount, tracing, sync, getBoardsCalls, returned>>

NextSubTask ==
    \/ LoadAtStart
    \/ LoadSettleOk
    \/ AddSubTaskToTask
    \/ AddSubTaskOk
    \/ UpdateSubTaskInTask
    \/ RemoveSubTaskFromTask
    \/ SubTaskGatewayOk
    \/ SubTaskGatewayFail

\* the sub-task operations on loaded projects
SpecSubTask == Init /\ [][NextSubTask]_vars

NextSubTaskOverlap ==
    \/ LoadAtStart
    \/ LoadSettleOk
    \/ AddSubTaskToTask
    \/ AddSubTaskWhileAwaiting
    \/ AddSubTaskOk
    \/ SubTaskGatewayFail

\* sub-task additions that overlap: the second is called while the first
\* awaits createSubItem
SpecSubTaskOverlap == Init /\ [][NextSubTaskOverlap]_vars

----
(* archiveProject *)

\* the platform archives the board
remoteArchiveBoard(bs, boardId) ==
    [i \in 1..Len(bs) |->
        IF bs[i].id = boardId THEN [bs[i] EXCEPT !.state = "archived"] ELSE bs[i]]

\* the optional mondayBoardId argument: left out, or the board of the project
BoardIdArgs(projectId) ==
    {NULL} \cup IF hasId(projects, projectId)
                THEN {findById(projects, projectId).mondayBoardId}
                ELSE {}

\* lines 892-906: up to the await of archiveBoard
ArchiveProject ==
    /\ opCount < MaxOps
    /\ Len(opChains) < MaxOpChains
    /\ \E projectId \in ProjectIds : \E mondayBoardId \in BoardIdArgs(projectId) :
          LET arg == [NoArg EXCEPT !.projectId = projectId]
          IN  IF mondayBoardId = NULL /\ ~hasId(projects, projectId)
              THEN /\ opCatch("Project not found")
                   /\ last' = OpStep("archiveProject", "archiveProject", "notFound",
                                     arg, <<>>, TRUE)
                   /\ UNCHANGED opChains
              ELSE LET boardId == IF mondayBoardId # NULL THEN mondayBoardId
                                  ELSE findById(projects, projectId).mondayBoardId
                   IN  /\ isLoading' = TRUE
                       /\ error' = NULL
                       /\ opChains' = Append(opChains,
                             OpChain("archiveProject", "archiveBoard", arg, boardId))
                       /\ last' = OpStep("archiveProject", "archiveProject",
                                         "archiveBoard", arg, <<"archiveBoard">>, FALSE)
                       /\ UNCHANGED <<projects, projectsCache, lastCacheUpdate,
                                      isRefreshing>>
    /\ opCount' = opCount + 1
    /\ UNCHANGED <<now, workspaceId, boards, nextId, loadChains, refreshChains,
                   createChains, timers, tracing, sync, getBoardsCalls, returned>>

\* archiveBoard answered (lines 908-917): the snapshot is cleared, then
\* loadProjectsFromMonday(false) runs up to its await
ArchiveBoardOk ==
    /\ \E k \in 1..Len(opChains) :
          /\ AtOp(k, "archiveProject", "archiveBoard")
          /\ LET c == opChains[k]
             IN  /\ hasBoard(boards, c.boardId)
                 /\ boards' = remoteArchiveBoard(boards, c.boardId)
                 /\ opChains' = [opChains EXCEPT ![k] = [c EXCEPT !.pc = "reload"]]
                 /\ last' = OpStep("archiveBoardOk", "archiveProject",
                                   IF workspaceId THEN "fetch" ELSE "config", c.arg,
                                   IF workspaceId THEN <<"getBoards">> ELSE <<>>, FALSE)
    /\ invalidateCache
    /\ FetchPath("archiveProject")
    /\ UNCHANGED <<projects, isRefreshing, now, workspaceId, nextId, refreshChains,
                   createChains, timers, opCount, tracing, sync>>

archiveCatch_Invalidates(e) ==
    /\ error' = messageOf(e, "Failed to archive project")
    /\ isLoading' = FALSE
    /\ invalidateCache
    /\ UNCHANGED <<projects, isRefreshing>>

\* the catch of archiveProject (lines 918-925)
archiveCatch(e) == opCatch(messageOf(e, "Failed to archive project"))

\* archiveBoard failed
ArchiveBoardFail ==
    /\ \E k \in 1..Len(opChains) : \E e \in Thrown :
          /\ AtOp(k, "archiveProject", "archiveBoard")
          /\ archiveCatch(e)
          /\ last' = OpStep("archiveProjectFail", "archiveProject", "archiveBoard",
                            opChains[k].arg, <<>>, TRUE)
          /\ opChains' = RemoveAt(opChains, k)
    /\ UNCHANGED <<now, workspaceId, boards, nextId, loadChains, refreshChains,
                   createChains, timers, opCount, tracing, sync, getBoardsCalls, returned>>

\* the reload has returned (it never rejects): archiveProject resolves
ArchiveResolve ==
    /\ \E k \in 1..Len(opChains) :
          /\ AtOp(k, "archiveProject", "reload")
          /\ \A i \in 1..Len(loadChains) : loadChains[i].by # "archiveProject"
          /\ last' = OpStep("archiveProjectOk", "archiveProject", "reload",
                            opChains[k].arg, <<>>, FALSE)
          /\ opChains' = RemoveAt(opChains, k)
    /\ UNCHANGED <<store, now, workspaceId, boards, nextId, loadChains, refreshChains,
                   createChains, timers, opCount, tracing, sync, getBoardsCalls, returned>>

NextArchive ==
    \/ LoadAtStart
    \/ LoadSettleOk
    \/ LoadSettleFail
    \/ ArchiveProject
    \/ ArchiveBoardOk
    \/ ArchiveBoardFail
    \/ ArchiveResolve
    \/ RefreshCall
    \/ RefreshSettleOk
    \/ RefreshSettleFail

\* archiveProject on loaded projects, beside the background refresh
SpecArchive == Init /\ [][NextArchive]_vars

----
(* startAutoSync, stopAutoSync *)

\* clearInterval(state.syncInterval) when the handle is set
clearInterval(live, handle) == IF handle # NoHandle THEN live \ {handle} ELSE live

\* lines 1204-1215 without the clearInterval of lines 1206-1208
StartAutoSync_NoClear ==
    /\ intervalIds < MaxSyncStarts
    /\ intervalIds' = intervalIds + 1
    /\ intervals' = intervals \cup {intervalIds + 1}
    /\ syncInterval' = intervalIds + 1
    /\ last' = Step("startAutoSync", "startAutoSync", FALSE,
                    IF syncInterval # NoHandle THEN "replace" ELSE "install", 0, <<>>, FALSE)
    /\ UNCHANGED <<store, now, workspaceId, boards, nextId, loadChains, refreshChains,
                   createChains, opChains, timers, opCount, tracing, getBoardsCalls, returned>>

\* lines 1204-1215: clear the stored timer, set a new one, store its handle
StartAutoSync ==
    /\ intervalIds < MaxSyncStarts
    /\ intervalIds' = intervalIds + 1
    /\ intervals' = clearInterval(intervals, syncInterval) \cup {intervalIds + 1}
    /\ syncInterval' = intervalIds + 1
    /\ last' = Step("startAutoSync", "startAutoSync", FALSE,
                    IF syncInterval # NoHandle THEN "replace" ELSE "install", 0, <<>>, FALSE)
    /\ UNCHANGED <<store, now, workspaceId, boards, nextId, loadChains, refreshChains,
                   createChains, opChains, timers, opCount, tracing, getBoardsCalls, returned>>

\* lines 1218-1224: clear the stored timer and the handle, when there is one
StopAutoSync ==
    /\ intervals' = clearInterval(intervals, syncInterval)
    /\ syncInterval' = NoHandle
    /\ last' = Step("stopAutoSync", "stopAutoSync", FALSE,
                    IF syncInterval # NoHandle THEN "clear" ELSE "none", 0, <<>>, FALSE)
    /\ UNCHANGED <<store, now, workspaceId, boards, nextId, loadChains, refreshChains,
                   createChains, opChains, timers, opCount, tracing, getBoardsCalls,
                   returned, intervalIds>>

\* lines 1211-1213: a live timer comes due and calls refreshProjectsInBackground
IntervalFire ==
    /\ \E handle \in intervals :
         last' = Step("refresh", "autoSync", FALSE, IF isRefreshing THEN "busy" ELSE "run",
                      1, refreshIssues, FALSE)
    /\ StartRefresh
    /\ UNCHANGED <<projects, projectsCache, lastCacheUpdate, isLoading, error, now,
                   workspaceId, boards, nextId, loadChains, createChains, opChains,
                   timers, opCount, tracing, returned, sync>>

NextAutoSync ==
    \/ LoadAtStart
    \/ LoadSettleOk
    \/ LoadSettleFail
    \/ StartAutoSync
    \/ StopAutoSync
    \/ IntervalFire
    \/ RefreshSettleOk
    \/ RefreshSettleFail

\* the periodic sync beside the start-up load
SpecAutoSync == Init /\ [][NextAutoSync]_vars

\* every getBoards call is answered in the end and the event loop runs the
\* continuation of the chain that awaits it.  The failing answer is enabled
\* exactly while the call is pending and either answer ends the pending call,
\* so weak fairness of the failing answer says that no call stays pending.
SpecAutoSyncFair ==
    /\ SpecAutoSync
    /\ WF_vars(RefreshSettleFail)
    /\ WF_vars(LoadSettleFail)

----
(* One module, sub-task or archive operation on the loaded projects *)

\* one operation is called, before or after the load at start
OneOp ==
    /\ opCount = 0
    /\ \/ AddModuleToProject
       \/ RemoveModuleFromProject
       \/ UpdateModuleInProject
       \/ RefreshProject
       \/ ArchiveProject
       \/ AddSubTaskToTask
       \/ UpdateSubTaskInTask
       \/ RemoveSubTaskFromTask

NextOps ==
    \/ LoadAtStart
    \/ LoadSettleOk
    \/ LoadSettleFail
    \/ OneOp
    \/ AddModuleGroupOk
    \/ AddModuleGroupFail
    \/ AddModuleItemOk
    \/ AddModuleItemFail
    \/ RemoveModuleOk
    \/ RemoveModuleFail
    \/ RefreshProjectOk
    \/ RefreshProjectFail
    \/ AddSubTaskOk
    \/ SubTaskGatewayFail
    \/ ArchiveBoardOk
    \/ ArchiveBoardFail
    \/ ArchiveResolve
    \/ TimerFire
    \/ RefreshSettleOk
    \/ RefreshSettleFail

SpecOps == Init /\ [][NextOps]_vars

----
(* calculateProjectProgress applied to the module lists of a bounded set *)

SeqsUpTo(S, n) == UNION { [1..k -> S] : k \in 0..n }

TaskStatuses == {"todo", "in_progress", "done"}
\* the sub-tasks every task of a list holds: none, or one of the given status
SubTaskFills == {NULL, "done"}

progressTask(status, fill) ==
    [id |-> "t", name |-> "Task", mondayItemId |-> NULL, status |-> status,
     subTasks |-> IF fill = NULL THEN <<>>
                  ELSE <<[id |-> "st", name |-> "Check", status |-> fill,
                          mondaySubItemId |-> NULL]>>]

progressModule(statuses, fill) ==
    [id |-> "m", name |-> "Module", mondayGroupId |-> NULL, status |-> "not_started",
     tasks |-> [i \in 1..Len(statuses) |-> progressTask(statuses[i], fill)]]

ModuleLists ==
    { [i \in 1..Len(shape) |-> progressModule(shape[i], fill)] :
        shape \in SeqsUpTo(SeqsUpTo(TaskStatuses, MaxProgressTasks), MaxProgressModules),
        fill \in SubTaskFills }

InitProgress ==
    /\ InitRest
    /\ workspaceId = TRUE
    /\ boards = <<>>
    /\ tracing = FALSE
    /\ \E modules \in ModuleLists :
          projects = <<[id |-> "p", name |-> <<"P">>, mondayBoardId |-> NULL,
                        modules |-> modules, progress |-> 0,
                        syncStatus |-> NULL, syncError |-> NULL]>>
    /\ projectsCache = NoCache
    /\ lastCacheUpdate = NoTime
    /\ isRefreshing = FALSE
    /\ isLoading = FALSE
    /\ error = NULL

\* progress: calculateProjectProgress(modules)
ApplyProgress ==
    /\ last.op # "progress"
    /\ projects' = [projects EXCEPT
                       ![1].progress = calculateProjectProgress(projects[1].modules)]
    /\ last' = Step("progress", "calculateProjectProgress", FALSE, "none", 0, <<>>, FALSE)
    /\ UNCHANGED <<projectsCache, lastCacheUpdate, isRefreshing, isLoading, error, now,
                   workspaceId, boards, nextId, loadChains, refreshChains, createChains,
                   opChains, timers, opCount, tracing, sync, getBoardsCalls, returned>>

SpecProgress == InitProgress /\ [][ApplyProgress]_vars

----
(* The remote transform applied to the gateway answers of a bounded set *)

word_Done == <<"D","o","n","e">>
word_COMPLETED == <<"C","O","M","P","L","E","T","E","D">>
word_Realise == <<"R","e_acute","a","l","i","s","e_acute">>
word_Progress == <<"P","r","o","g","r","e","s","s">>
word_EnCours == <<"E","n"," ","c","o","u","r","s">>
word_Stuck == <<"S","t","u","c","k">>
StatusWords == {word_Done, word_COMPLETED, word_Realise, word_Progress,
                word_EnCours, word_Stuck}

RECURSIVE joinWords(_)
joinWords(ws) ==
    IF ws = <<>> THEN <<>>
    ELSE IF Len(ws) = 1 THEN ws[1]
    ELSE ws[1] \o <<" ">> \o joinWords(Tail(ws))

\* the raw status texts: up to MaxStatusWords words, the empty text included
StatusTexts == { joinWords(ws) : ws \in SeqsUpTo(StatusWords, MaxStatusWords) }

\* a board of one item with the given columns
statusBoard(cols) ==
    [id |-> "b1", name |-> <<"Acme-1">>, state |-> "active",
     groups |-> <<[id |-> "g1", title |-> "Infrastructure",
                   items |-> <<[id |-> "i1", name |-> "Install",
                                column_values |-> cols]>>]>>]

StatusBoards ==
    {<<statusBoard(<<>>)>>, <<statusBoard(<<col_text(word_Done)>>)>>}
    \cup { <<statusBoard(<<col_status(text)>>)>> : text \in StatusTexts }

\* a board that is not a sub-item board but holds the marker inside its name
board_mid == [id |-> "b5", name |-> <<"Notes", SubItemMarker, "Acme-1">>,
              state |-> "active",
              groups |-> <<[id |-> "g5", title |-> "Notes", items |-> <<item_bare>>]>>]

BoardPool == {board_acme, board_old, board_sub, board_zen, board_mid}

\* the answers of getBoards: up to MaxBoards boards of the pool, none twice
BoardLists ==
    { bs \in SeqsUpTo(BoardPool, MaxBoards) :
        \A i, j \in 1..Len(bs) : i # j => bs[i] # bs[j] }

InitTransform ==
    /\ InitStore
    /\ InitRest
    /\ workspaceId = TRUE
    /\ boards \in StatusBoards \cup BoardLists
    /\ tracing = FALSE

NextTransform ==
    \/ LoadAtStart
    \/ LoadSettleOk
    \/ LoadSettleFail
    \/ RefreshCall
    \/ RefreshSettleOk
    \/ RefreshSettleFail

\* load and background refresh on the gateway answers above
SpecTransform == InitTransform /\ [][NextTransform]_vars

----
(* Every writer of the store: one createProject (of a project without     *)
(* modules) and one module, sub-task or archive operation beside the load, *)
(* the background refresh and the invalidation of the snapshot             *)

\* the first createProject of the session, called without module names
CreateBare ==
    /\ CreateFirst
    /\ createChains'[Len(createChains')].input.modules = <<>>

NextStore ==
    \/ NextOps
    \/ CreateBare
    \/ CreateBoardOk
    \/ CreateBoardFail
    \/ CreateColumnSettle
    \/ GetBoardGroupsSettle
    \/ DeleteDefaultGroupSettle
    \/ InvalidateCache

SpecStore == Init /\ [][NextStore]_vars

----
(* The store as the persist middleware restores it (lines 1236-1244): the  *)
(* projects, the snapshot and its time of an earlier session, the rest as   *)
(* constructed; the configuration of this session may lack the workspace.   *)

InitRehydrated ==
    /\ InitRest
    /\ workspaceId \in BOOLEAN
    /\ boards \in RemoteStates
    /\ tracing = FALSE
    /\ \E bs \in RemoteStates : projects = transformBoards(bs)
    /\ projectsCache \in {NoCache, Some(projects)}
    /\ lastCacheUpdate = IF projectsCache.some THEN now ELSE NoTime
    /\ isRefreshing = FALSE
    /\ isLoading = FALSE
    /\ error = NULL

NextRehydrated ==
    \/ LoadCall
    \/ LoadSettleOk
    \/ LoadSettleFail
    \/ RefreshCall
    \/ RefreshSettleOk
    \/ RefreshSettleFail
    \/ ForceSync
    \/ RefreshProject
    \/ RefreshProjectOk
    \/ RefreshProjectFail

\* the fetching operations on a restored store
SpecRehydrated == InitRehydrated /\ [][NextRehydrated]_vars

\* Every operation beside every other.  The properties are checked under the
\* specifications above, each of which holds the operations its claims are about.
Next == NextCache \/ NextCreate \/ NextModule \/ NextSubTask \/ NextArchive
           \/ NextAutoSync

Spec == Init /\ [][Next]_vars

----
(* The scenario of the cache property: a fresh store, load(true) called   *)
(* one call after the other, nothing else, with the instruments on.       *)

InitLoadTwice ==
    /\ InitStore
    /\ InitRest
    /\ workspaceId \in BOOLEAN
    /\ boards \in RemoteStates
    /\ tracing = TRUE

LoadTrueAgain ==
    /\ Len(returned) < 2
    /\ loadChains = <<>>
    /\ LoadCallWith(TRUE)

NextLoadTwice ==
    \/ LoadTrueAgain
    \/ LoadSettleOk
    \/ LoadSettleFail
    \/ RefreshSettleOk
    \/ RefreshSettleFail
    \/ Tick
    \/ RemoteChange

SpecLoadTwice == InitLoadTwice /\ [][NextLoadTwice]_vars

----
(* Properties of the cache lifecycle *)

age == now - lastCacheUpdate
hasSnapshot == projectsCache.some /\ lastCacheUpdate # NoTime
frame == <<now, workspaceId, boards, nextId, loadChains, refreshChains, createChains>>

\* C3: at most one background refresh is between its getBoards call and its
\* completion, and a refreshProjectsInBackground call made while isRefreshing
\* is true issues no gateway call and changes nothing.
C3_SingleFlight ==
    /\ [](refreshChains <= 1)
    /\ [][(isRefreshing /\ last'.bg = 1) =>
            /\ last'.gw = <<>>
            /\ refreshChains' = refreshChains
            /\ isRefreshing'
            /\ getBoardsCalls' = getBoardsCalls
            /\ (last'.op = "refresh" => UNCHANGED store /\ UNCHANGED frame)]_vars

C3_Witness == last.op = "refresh" /\ last.path = "busy" /\ refreshChains = 1

\* C4: a background refresh whose getBoards call fails leaves projects, the
\* snapshot, lastCacheUpdate and the global error as they were, and it
\* resolves (the error is not thrown on to the caller).
C4_RefreshFailureSilent ==
    [][last'.op = "refreshFail" =>
         /\ UNCHANGED <<projects, projectsCache, lastCacheUpdate, error>>
         /\ ~last'.rejected]_vars

C4_Witness ==
    /\ last.op = "refreshFail"
    /\ hasSnapshot
    /\ projects # <<>>
    /\ projects # transformBoards(boards)
    /\ error = NULL

\* C5: load(true) on a snapshot younger than 10 minutes shows the snapshot,
\* clears isLoading and starts no fetch of its own; a snapshot aged 10
\* minutes or more is not used (projects are left alone, the fetch path runs).
C5_FreshSnapshotServed ==
    [][(last'.op = "load" /\ last'.by = "load" /\ last'.useCache /\ hasSnapshot) =>
         IF age < CACHE_DURATION
         THEN /\ last'.path = "cache"
              /\ projects' = projectsCache.list
              /\ ~isLoading'
              /\ loadChains' = loadChains
         ELSE /\ last'.path # "cache"
              /\ projects' = projects
              /\ (workspaceId => Len(loadChains') = Len(loadChains) + 1)]_vars

C5_Witness ==
    /\ last.op = "load" /\ last.useCache /\ last.path = "cache"
    /\ projects # <<>>
    /\ projects = projectsCache.list
    /\ age = CACHE_DURATION - TickStep
    /\ ~isLoading

\* C6: load(true) served from a snapshot older than 2 minutes (and younger
\* than 10) calls refreshProjectsInBackground exactly once and waits on no
\* gateway call; served from a snapshot aged 2 minutes or less it calls none.
C6_StaleTriggersOneRefresh ==
    [][(last'.op = "load" /\ last'.path = "cache") =>
         /\ loadChains' = loadChains
         /\ ~isLoading'
         /\ IF age > STALE_AFTER
            THEN /\ last'.bg = 1
                 /\ (~isRefreshing /\ workspaceId => refreshChains' = refreshChains + 1)
                 /\ isRefreshing'
            ELSE /\ last'.bg = 0
                 /\ refreshChains' = refreshChains
                 /\ isRefreshing' = isRefreshing]_vars

C6_Witness ==
    /\ last.op = "load" /\ last.path = "cache" /\ last.bg = 1
    /\ last.gw = <<"getBoards">>
    /\ refreshChains = 1
    /\ loadChains = <<>>
    /\ age = STALE_AFTER + TickStep

\* C7 as stated: after load(true) twice within the freshness window the
\* list-boards counter is 1 and both calls gave the same projects.
C7_Original ==
    (Len(returned) = 2 /\ last.op = "load" /\ last.path = "cache") =>
        /\ getBoardsCalls = 1
        /\ returned[2] = returned[1]

\* C7, amended: both calls give the same projects; the counter is 1 when the
\* snapshot is at most 2 minutes old at the second call, and 2 when it is
\* older, because the second call then starts a background refresh.
C7_CacheProperty ==
    (Len(returned) = 2 /\ last.op = "load" /\ last.path = "cache") =>
        /\ returned[2] = returned[1]
        /\ returned[2] = projectsCache.list
        /\ getBoardsCalls = (IF age > STALE_AFTER THEN 2 ELSE 1)

C7_Witness ==
    /\ Len(returned) = 2 /\ last.op = "load" /\ last.path = "cache"
    /\ returned[1] # <<>>
    /\ getBoardsCalls = 1
    /\ age = STALE_AFTER

\* the load steps that did not find a usable snapshot
fetchingLoadStep ==
    /\ last'.op = "load" /\ last'.by = "load"
    /\ ~cacheValid(last'.useCache, projectsCache, lastCacheUpdate, now)

\* C8 as stated: whenever the cache is bypassed, load performs a gateway fetch.
C8_Original == [][fetchingLoadStep => last'.gw = <<"getBoards">>]_vars

\* C8, amended: when the cache is bypassed and the workspace identifier is
\* configured, load performs a gateway fetch (without it, load fetches nothing
\* and sets the global error); a successful fetch installs the transformed
\* result as projects and snapshot, with a timestamp, in one update; a failed
\* fetch leaves projects and snapshot alone, sets the global error, clears
\* isLoading and resolves.
C8_BlockingFetch ==
    [][/\ fetchingLoadStep =>
            /\ projects' = projects
            /\ IF workspaceId
               THEN /\ last'.gw = <<"getBoards">>
                    /\ Len(loadChains') = Len(loadChains) + 1
                    /\ isLoading'
               ELSE /\ last'.gw = <<>>
                    /\ loadChains' = loadChains
                    /\ error' = ConfigError
                    /\ ~isLoading'
       /\ last'.op = "loadOk" =>
            /\ projects' = transformBoards(boards)
            /\ projectsCache' = Some(projects')
            /\ lastCacheUpdate' # NoTime
            /\ ~isLoading'
       /\ last'.op = "loadFail" =>
            /\ UNCHANGED <<projects, projectsCache, lastCacheUpdate>>
            /\ error' # NULL
            /\ ~isLoading'
            /\ ~last'.rejected]_vars

C8_Witness ==
    /\ last.op = "loadOk" /\ last.by = "load"
    /\ projects # <<>>
    /\ projectsCache = Some(projects)
    /\ lastCacheUpdate # NoTime
    /\ ~isLoading

\* C9 as stated: the load(true) that follows invalidate performs a gateway fetch.
C9_Original ==
    [][(last.op = "invalidate" /\ last'.op = "load" /\ last'.useCache) =>
          last'.gw = <<"getBoards">>]_vars

\* C9, amended: invalidate clears the snapshot and its timestamp and leaves
\* projects, isLoading, error and isRefreshing alone; the load(true) that
\* follows bypasses the cache, and performs a gateway fetch when the workspace
\* identifier is configured.
C9_Invalidate ==
    [][/\ last'.op = "invalidate" =>
            /\ projectsCache' = NoCache
            /\ lastCacheUpdate' = NoTime
            /\ UNCHANGED <<projects, isLoading, error, isRefreshing>>
       /\ (~hasSnapshot /\ last'.op = "load" /\ last'.by = "load" /\ last'.useCache) =>
            /\ last'.path # "cache"
            /\ projects' = projects
            /\ (workspaceId => last'.gw = <<"getBoards">>)]_vars

C9_Witness ==
    /\ last.op = "invalidate"
    /\ projects # <<>>
    /\ projectsCache = NoCache
    /\ lastCacheUpdate = NoTime
    /\ isRefreshing

\* C10 as stated: forceSync always issues a gateway fetch.
C10_Original ==
    [][(last'.op = "load" /\ last'.by = "forceSync") => last'.gw = <<"getBoards">>]_vars

\* C10, amended: forceSync clears the snapshot and its timestamp and runs the
\* fetch path whatever the snapshot's age, issuing the gateway fetch when the
\* workspace identifier is configured; after its successful fetch projects and
\* the snapshot both equal the transformed remote data.
C10_ForceSync ==
    [][/\ last'.by = "forceSync" /\ last'.op = "load" =>
            /\ last'.path # "cache"
            /\ projectsCache' = NoCache
            /\ lastCacheUpdate' = NoTime
            /\ projects' = projects
            /\ (workspaceId => /\ last'.gw = <<"getBoards">>
                               /\ Len(loadChains') = Len(loadChains) + 1)
       /\ last'.by = "forceSync" /\ last'.op = "loadOk" =>
            /\ projects' = transformBoards(boards)
            /\ projectsCache' = Some(transformBoards(boards))]_vars

C10_Witness ==
    /\ last.by = "forceSync" /\ last.op = "loadOk"
    /\ projects # <<>>
    /\ projectsCache = Some(projects)
    /\ projects = transformBoards(boards)

----
(* Properties of createProject *)

entityAt(ps, pos, id, status) ==
    /\ pos \in 1..Len(ps)
    /\ ps[pos].id = id
    /\ ps[pos].syncStatus = status

\* C1: right after createProject is called, projects and the snapshot hold
\* the new entity with syncStatus syncing; when createProject has settled
\* successfully, the entity at that list position is synced and has a remote
\* board identifier.
C1_OptimisticCreate ==
    /\ last.op = "createStart" =>
          /\ entityAt(projects, last.pos, last.id, "syncing")
          /\ projectsCache.some
          /\ entityAt(projectsCache.list, last.pos, last.id, "syncing")
    /\ last.op = "createOk" =>
          /\ last.pos \in 1..Len(projects)
          /\ projects[last.pos].syncStatus = "synced"
          /\ projects[last.pos].mondayBoardId # NULL

\* C2: when createBoard has failed and createProject has settled, the
\* optimistic entity is still in projects, with syncStatus error and a message.
C2_RollbackSafety ==
    (last.op = "createFail" /\ last.path = "createBoard") =>
        \E i \in 1..Len(projects) :
            /\ projects[i].id = last.id
            /\ projects[i].syncStatus = "error"
            /\ projects[i].syncError # NULL

\* projects'[j] is the project that projects[i] was: the same local
\* identifier, or the entity the final update of createProject put in its place
sameEntity(i, j) ==
    \/ projects[i].id = projects'[j].id
    \/ /\ last'.op = "createOk"
       /\ i = j
       /\ projects[i].id = last'.id

\* the changes of syncStatus from p to q that the state machine has
machineChange(p, q) ==
    \/ /\ q.syncStatus = p.syncStatus
       /\ p.syncStatus = "error" => q.syncError = p.syncError
    \/ p.syncStatus = "syncing" /\ q.syncStatus = "synced"
    \/ p.syncStatus = "syncing" /\ q.syncStatus = "error" /\ q.syncError # NULL

C12_LocalIdKept ==
    last.op = "createOk" =>
        /\ last.pos \in 1..Len(projects)
        /\ projects[last.pos].id = last.id

\* C13: a project whose remote creation is not confirmed (syncing, or error)
\* carries no remote board identifier.
C13_RemoteIdDuality ==
    \A i \in 1..Len(projects) :
        projects[i].syncStatus \in {"syncing", "error"} =>
            projects[i].mondayBoardId = NULL

\* the input createProject was called with, from the name of its project
inputOf(p) == CHOOSE input \in ProjectInputs : input.name = p.name

\* C14: when createProject has succeeded (createBoard and every createGroup
\* answered), whatever failed among createColumn, createItem, createSubItem
\* and the removal of the default group, the project is synced and has every
\* requested module with every task and sub-task of its template; a task or
\* sub-task whose remote creation failed is there with a null remote id.
C14_NestedFailureIsolation ==
    last.op = "createOk" =>
        /\ last.pos \in 1..Len(projects)
        /\ LET p == projects[last.pos]
               requested == inputOf(p).modules
           IN  /\ p.syncStatus = "synced"
               /\ Len(p.modules) = Len(requested)
               /\ \A m \in 1..Len(requested) :
                     LET tpl == getDefaultTasksForModule(requested[m])
                         tasks == p.modules[m].tasks
                     IN  /\ p.modules[m].name = requested[m]
                         /\ Len(tasks) = Len(tpl)
                         /\ \A t \in 1..Len(tpl) :
                               /\ tasks[t].name = tpl[t].name
                               /\ Len(tasks[t].subTasks) = Len(tpl[t].subTasks)
                               /\ <<m, t, 0>> \in last.failed =>
                                     tasks[t].mondayItemId = NULL
                               /\ \A u \in 1..Len(tpl[t].subTasks) :
                                     /\ tasks[t].subTasks[u].name = tpl[t].subTasks[u].name
                                     /\ <<m, t, u>> \in last.failed =>
                                           tasks[t].subTasks[u].mondaySubItemId = NULL

\* createProject succeeded although the creation of a sub-task of the first
\* task and the creation of the second task failed
C14_Witness ==
    /\ last.op = "createOk"
    /\ {<<1, 1, 1>>, <<1, 2, 0>>} \subseteq last.failed
    /\ last.pos \in 1..Len(projects)
    /\ projects[last.pos].syncStatus = "synced"
    /\ Len(projects[last.pos].modules) = 1

\* C15: createProject ends in error exactly when createBoard has failed; a
\* failure of a later step, createGroup included, does not end in error.
C15_ErrorOnlyOnCreateBoard ==
    /\ last.op = "createFail" => last.path = "createBoard"
    /\ \A i \in 1..Len(projects) :
          (projects[i].id = last.id /\ projects[i].syncStatus = "error") =>
              (last.op = "createFail" /\ last.path = "createBoard")

----
(* Properties of the module and sub-task operations *)

quiescent ==
    /\ loadChains = <<>>
    /\ refreshChains = 0
    /\ createChains = <<>>
    /\ opChains = <<>>

\* C16: every project in projects has the progress that
\* calculateProjectProgress gives for its current modules.
C16_ProgressInvariant ==
    \A i \in 1..Len(projects) :
        projects[i].progress = calculateProjectProgress(projects[i].modules)

\* C17: whenever no operation is in flight and there is a snapshot, the
\* snapshot equals projects.
C17_MatchingCacheUpdate ==
    (quiescent /\ projectsCache.some) => projectsCache.list = projects

\* the sub-tasks of the task that arg names, in the list ps
subTasksAt(ps, arg) ==
    findById(findById(findById(ps, arg.projectId).modules, arg.moduleId).tasks,
             arg.taskId).subTasks

\* the local change of the sub-task operation op called with arg has been
\* made from the list ps to the list qs
localChange(op, arg, ps, qs) ==
    LET before == subTasksAt(ps, arg)
        after == subTasksAt(qs, arg)
    IN  CASE op = "addSubTask" ->
               /\ ~hasId(before, arg.subTaskId)
               /\ hasId(after, arg.subTaskId)
               /\ findById(after, arg.subTaskId).name = arg.name
          [] op = "updateSubTask" ->
               /\ hasId(after, arg.subTaskId)
               /\ \E updates \in SubTaskUpdates :
                     findById(after, arg.subTaskId) =
                        spread(findById(before, arg.subTaskId), updates)
          [] op = "removeSubTask" ->
               /\ hasId(before, arg.subTaskId)
               /\ ~hasId(after, arg.subTaskId)

\* C18: a sub-task operation on an existing project, module and task makes
\* its local change in the step that issues its gateway call, with the global
\* error null; when that gateway call fails, the step leaves projects and the
\* global error as they are and the operation does not reject.
C18_SubTaskLocalFirst ==
    [][/\ (last'.op \in SubTaskOps /\ last'.gw # <<>>) =>
             /\ localChange(last'.op, last'.arg, projects, projects')
             /\ error' = NULL
       /\ last'.op \in {"addSubTaskFail", "updateSubTaskFail", "removeSubTaskFail"} =>
             /\ projects' = projects
             /\ error' = error
             /\ ~last'.rejected]_vars

\* updateSubItem has failed and the renamed sub-task is still in projects
C18_Witness ==
    /\ last.op = "updateSubTaskFail"
    /\ error = NULL
    /\ ~isLoading
    /\ \E st \in {subTasksAt(projects, last.arg)[i] :
                      i \in 1..Len(subTasksAt(projects, last.arg))} :
          /\ st.id = last.arg.subTaskId
          /\ st.name = "Renamed"
          /\ st.mondaySubItemId # NULL

\* the project that arg names has a module with this name, or with this id
hasModuleNamed(ps, projectId, name) ==
    /\ hasId(ps, projectId)
    /\ \E i \in 1..Len(findById(ps, projectId).modules) :
          findById(ps, projectId).modules[i].name = name
hasModule(ps, projectId, moduleId) ==
    /\ hasId(ps, projectId)
    /\ hasId(findById(ps, projectId).modules, moduleId)

\* C19: addModuleToProject has put the module in projects when it issues its
\* first gateway call, and removeModuleFromProject has taken the module out of
\* projects when it issues deleteGroup and also when deleteGroup has failed.
C19_ModuleLocalFirst ==
    [][/\ (last'.op = "addModule" /\ last'.gw # <<>>) =>
             hasModuleNamed(projects', last'.arg.projectId, last'.arg.name)
       /\ (last'.op = "removeModule" /\ last'.gw # <<>>) =>
             ~hasModule(projects', last'.arg.projectId, last'.arg.moduleId)
       /\ last'.op = "removeModuleFail" =>
             ~hasModule(projects', last'.arg.projectId, last'.arg.moduleId)]_vars

\* ids of the modules and of the tasks of ps that have no remote id
localOnly(ps) ==
    UNION { UNION { {ps[i].modules[m].id : x \in
                        IF ps[i].modules[m].mondayGroupId = NULL THEN {1} ELSE {}}
                    \cup {ps[i].modules[m].tasks[t].id :
                            t \in {u \in 1..Len(ps[i].modules[m].tasks) :
                                     ps[i].modules[m].tasks[u].mondayItemId = NULL}} :
                    m \in 1..Len(ps[i].modules) } :
            i \in 1..Len(ps) }

\* ids of all the modules and tasks of ps
entityIds(ps) ==
    UNION { UNION { {ps[i].modules[m].id}
                    \cup {ps[i].modules[m].tasks[t].id :
                            t \in 1..Len(ps[i].modules[m].tasks)} :
                    m \in 1..Len(ps[i].modules) } :
            i \in 1..Len(ps) }

\* C20: a module or a task without remote id that is in projects when a
\* background refresh completes successfully is in projects afterwards.
C20_LocalEntitySurvivesRefresh ==
    [][last'.op = "refreshOk" => localOnly(projects) \subseteq entityIds(projects')]_vars

----
(* Properties of archiveProject *)

\* C21: archiveProject leaves projects, the snapshot and its timestamp alone
\* while it issues archiveBoard; only the step in which archiveBoard has
\* answered clears the snapshot and the timestamp and starts the reload; when
\* archiveBoard has failed, projects, the snapshot and the timestamp are
\* unchanged, the global error holds the message and archiveProject rejects.
C21_ArchiveRemoteFirst ==
    [][/\ last'.op = "archiveProject" =>
             /\ UNCHANGED <<projects, projectsCache, lastCacheUpdate>>
             /\ last'.gw \in {<<>>, <<"archiveBoard">>}
       /\ last'.op = "archiveBoardOk" =>
             /\ projectsCache' = NoCache
             /\ lastCacheUpdate' = NoTime
             /\ workspaceId => last'.gw = <<"getBoards">>
       /\ last'.op = "archiveProjectFail" =>
             /\ UNCHANGED <<projects, projectsCache, lastCacheUpdate>>
             /\ error' \in {"Network error", "Failed to archive project"}
             /\ ~isLoading'
             /\ last'.rejected]_vars

\* archiveBoard has failed for a loaded project: the snapshot is still there
C21_Witness ==
    /\ last.op = "archiveProjectFail"
    /\ hasId(projects, last.arg.projectId)
    /\ projectsCache = Some(projects)
    /\ lastCacheUpdate # NoTime
    /\ error = "Network error"

\* C22: when archiveProject has resolved, the archived project is not in
\* projects.
C22_ArchivedLeavesList ==
    last.op = "archiveProjectOk" => ~hasId(projects, last.arg.projectId)

\* C23: after any sequence of startAutoSync and stopAutoSync calls at most one
\* recurring timer is live and the stored handle is set exactly when one is;
\* startAutoSync leaves its new timer as the only live one, stopAutoSync leaves
\* none and no handle; a tick of the live timer calls refreshProjectsInBackground.
C23_PeriodicSync ==
    /\ [](/\ Cardinality(intervals) <= 1
          /\ syncInterval # NoHandle <=> intervals # {}
          /\ syncInterval # NoHandle => syncInterval \in intervals)
    /\ [][ /\ last'.op = "startAutoSync" =>
                /\ syncInterval' # NoHandle
                /\ syncInterval' \notin intervals
                /\ intervals' = {syncInterval'}
           /\ last'.op = "stopAutoSync" =>
                /\ intervals' = {}
                /\ syncInterval' = NoHandle
           /\ last'.by = "autoSync" =>
                /\ intervals # {}
                /\ last'.op = "refresh" /\ last'.bg = 1
                /\ ~isRefreshing => isRefreshing'
                /\ ~isRefreshing /\ workspaceId => last'.gw = <<"getBoards">> ]_vars

\* a startAutoSync that found a timer set and replaced it
C23_Witness ==
    /\ last.op = "startAutoSync"
    /\ last.path = "replace"
    /\ intervals = {syncInterval}
    /\ intervalIds >= 2

\* C24: a load that takes the fetch path with the workspace identifier missing
\* issues no gateway call, sets the error to the configuration message, sets
\* isLoading to false and leaves projects and the snapshot unchanged.
C24_ConfigErrorOnLoad ==
    [][ /\ last'.op = "load" /\ last'.by = "load"
        /\ ~workspaceId
        /\ ~cacheValid(last'.useCache, projectsCache, lastCacheUpdate, now)
        => /\ last'.gw = <<>>
           /\ UNCHANGED <<loadChains, refreshChains>>
           /\ error' = ConfigError
           /\ ~isLoading'
           /\ UNCHANGED <<projects, projectsCache, lastCacheUpdate>> ]_vars

\* load(false) refused on a store that holds projects and a snapshot
C24_Witness ==
    /\ last.op = "load" /\ last.by = "load" /\ last.path = "config"
    /\ ~workspaceId
    /\ projects # <<>>
    /\ projectsCache = Some(projects)
    /\ error = ConfigError
    /\ ~isLoading

\* C25: with the workspace identifier absent no step of load, background
\* refresh, refreshProject, archiveProject or forceSync issues getBoards or getBoard.
C25_NoReadWithoutWorkspace ==
    [][ ~workspaceId =>
          \A i \in 1..Len(last'.gw) : last'.gw[i] \notin {"getBoards", "getBoard"} ]_vars

\* the operations that look their entity up in projects (an archiveProject
\* whose project is absent is called without a board id)
LookupOps == {"addModule", "removeModule", "updateModule", "refreshProject",
              "archiveProject", "addSubTask", "updateSubTask", "removeSubTask"}

\* the project, module or task the operation op refers to by arg is not in projects
referencedAbsent(op, arg) ==
    IF op \in {"addModule", "refreshProject", "archiveProject"}
    THEN ~hasId(projects, arg.projectId)
    ELSE IF op \in {"removeModule", "updateModule"}
    THEN \/ ~hasId(projects, arg.projectId)
         \/ ~hasId(findById(projects, arg.projectId).modules, arg.moduleId)
    ELSE notFound(arg) # NULL

\* C26: an operation whose project, module or task is absent from projects
\* rejects, issues no gateway call and leaves projects and the snapshot unchanged.
C26_NotFoundNeverApplies ==
    [][ /\ last'.op \in LookupOps
        /\ opCount' = opCount + 1
        /\ referencedAbsent(last'.op, last'.arg)
        => /\ last'.rejected
           /\ last'.gw = <<>>
           /\ UNCHANGED <<projects, projectsCache, lastCacheUpdate, opChains, boards>>
           /\ error' # NULL
           /\ ~isLoading' ]_vars

\* a sub-task operation on a task that is not in a loaded module
C26_Witness ==
    /\ last.op \in {"addSubTask", "updateSubTask", "removeSubTask"}
    /\ last.rejected
    /\ hasId(projects, last.arg.projectId)
    /\ hasId(findById(projects, last.arg.projectId).modules, last.arg.moduleId)
    /\ last.arg.taskId = "nope"
    /\ projectsCache = Some(projects)
    /\ error = "Tache introuvable"

\* C27: when the getBoard call of refreshProject fails, refreshProject rejects,
\* the error holds the message of what was thrown, isLoading is false and
\* projects is as it was.
C27_RefreshProjectRethrows ==
    [][ last'.op = "refreshProjectFail"
        => /\ last'.rejected
           /\ \E k \in 1..Len(opChains) :
                 /\ opChains[k].op = "refreshProject"
                 /\ opChains[k].arg = last'.arg
           /\ error' \in {messageOf(e, "Failed to refresh project") : e \in Thrown}
           /\ ~isLoading'
           /\ projects' = projects ]_vars

\* refreshProject of a loaded project rejected with the gateway's error
C27_Witness ==
    /\ last.op = "refreshProjectFail"
    /\ last.rejected
    /\ hasId(projects, last.arg.projectId)
    /\ error = "Network error"
    /\ ~isLoading

\* the statuses of the tasks of a module list, module after module
statusesOf(modules) ==
    LET ts == flatTasks(modules) IN [i \in 1..Len(ts) |-> ts[i].status]

\* the module list with every task's sub-tasks taken away
withoutSubTasks(modules) ==
    [i \in 1..Len(modules) |->
        [modules[i] EXCEPT !.tasks =
            [j \in 1..Len(modules[i].tasks) |->
                [modules[i].tasks[j] EXCEPT !.subTasks = <<>>]]]]

\* C28: the progress of a module list is 0 without tasks; otherwise it is the
\* integer nearest to (100 per done task + 50 per in_progress task) / task count;
\* it lies in 0..100; [done] gives 100, [done, todo] and [in_progress, in_progress]
\* give 50; the sub-tasks do not change it.
C28_ProgressAggregator ==
    last.op = "progress" =>
        LET modules == projects[1].modules
            st == statusesOf(modules)
            n == Len(st)
            total == 100 * Cardinality({i \in 1..n : st[i] = "done"})
                     + 50 * Cardinality({i \in 1..n : st[i] = "in_progress"})
            r == projects[1].progress
        IN  /\ n = 0 => r = 0
            /\ n > 0 => 2 * (r * n - total) <= n /\ 2 * (total - r * n) <= n
            /\ r \in 0..100
            /\ st = <<"done">> => r = 100
            /\ st = <<"done", "todo">> => r = 50
            /\ st = <<"in_progress", "in_progress">> => r = 50
            /\ r = calculateProjectProgress(withoutSubTasks(modules))

\* a quotient that is not whole: 50 / 3 rounds to 17, with sub-tasks that are done
C28_Witness ==
    /\ last.op = "progress"
    /\ Len(projects[1].modules) = 2
    /\ statusesOf(projects[1].modules) = <<"todo", "in_progress", "todo">>
    /\ projects[1].modules[1].tasks[1].subTasks # <<>>
    /\ projects[1].progress = 17

\* the status column of an item, as the transform finds it
statusColumns(item) ==
    {i \in 1..Len(item.column_values) :
        \/ item.column_values[i].type = "status"
        \/ includes(item.column_values[i].id, txt_status)}

\* the status the claim gives an item: done before progress, else todo
claimedStatus(item) ==
    IF statusColumns(item) = {} THEN "todo"
    ELSE LET first == CHOOSE i \in statusColumns(item) :
                          \A j \in statusColumns(item) : i <= j
             t == toLowerCase(item.column_values[first].text)
         IN  IF \/ includes(t, toLowerCase(word_Done))
                \/ includes(t, toLowerCase(word_COMPLETED))
                \/ includes(t, toLowerCase(word_Realise))
             THEN "done"
             ELSE IF includes(t, toLowerCase(word_Progress)) \/ includes(t, txt_cours)
             THEN "in_progress"
             ELSE "todo"

\* the list the load or the refresh has just installed
installed == last.op \in {"loadOk", "refreshOk"}

\* C29: every raw status text maps to one of todo, in_progress, done: to done
\* when it contains 'done', 'completed' or the French done synonym in any case,
\* else to in_progress when it contains 'progress' or the French progress
\* synonym, else to todo; an item without a status column maps to todo.
C29_StatusMapper ==
    installed =>
        \A i \in 1..Len(projects) :
            LET board == findById(boards, projects[i].id)
            IN  \A j \in 1..Len(projects[i].modules) :
                \A k \in 1..Len(projects[i].modules[j].tasks) :
                    /\ projects[i].modules[j].tasks[k].status \in TaskStatuses
                    /\ projects[i].modules[j].tasks[k].status
                          = claimedStatus(board.groups[j].items[k])

\* the ids of a list, in its order
idsOf(xs) == [i \in 1..Len(xs) |-> xs[i].id]

\* a sub-item board as the claim has it: the name begins with the marker
beginsWithMarker(board) == board.name[1] = SubItemMarker

\* C30: the installed list holds one project per board that is neither archived
\* nor a sub-item board (its name begins with the marker), in gateway order, its
\* modules the groups and their tasks the items in gateway order, from the load
\* and from the background refresh alike.
C30_FullTransform ==
    installed =>
        LET shown == SelectSeq(boards,
                         LAMBDA b : b.state # "archived" /\ ~beginsWithMarker(b))
        IN  /\ idsOf(projects) = idsOf(shown)
            /\ \A i \in 1..Len(projects) :
                  LET board == findById(boards, projects[i].id)
                  IN  /\ idsOf(projects[i].modules) = idsOf(board.groups)
                      /\ \A j \in 1..Len(projects[i].modules) :
                            idsOf(projects[i].modules[j].tasks)
                               = idsOf(board.groups[j].items)

----
(* End to end, timestamps, atomicity, liveness and interleavings *)

\* C31: createProject with the one module name 'Infrastructure', whose template
\* has three default tasks, on a gateway whose every creation call succeeds,
\* settles with a project of exactly one module of that name with the three
\* tasks of the template in its order, module status not_started, syncStatus
\* synced and progress 0.
C31_EndToEndCreate ==
    (/\ last.op = "createOk"
     /\ last.failed = {}
     /\ last.pos \in 1..Len(projects)
     /\ inputOf(projects[last.pos]).modules = <<"Infrastructure">>)
    => LET p == projects[last.pos]
           tpl == templates[1]
       IN  /\ tpl.name = "Infrastructure" /\ Len(tpl.tasks) = 3
           /\ Len(p.modules) = 1
           /\ p.modules[1].name = "Infrastructure"
           /\ p.modules[1].status = "not_started"
           /\ Len(p.modules[1].tasks) = 3
           /\ \A t \in 1..3 : p.modules[1].tasks[t].name = tpl.tasks[t].name
           /\ p.syncStatus = "synced"
           /\ p.progress = 0

\* the scenario's project, created with remote ids for its tasks
C31_Witness ==
    /\ last.op = "createOk"
    /\ last.failed = {}
    /\ last.pos \in 1..Len(projects)
    /\ projects[last.pos].name = <<"New-9">>
    /\ Len(projects[last.pos].modules) = 1
    /\ Len(projects[last.pos].modules[1].tasks) = 3
    /\ \A t \in 1..3 : projects[last.pos].modules[1].tasks[t].mondayItemId # NULL
    /\ projects[last.pos].syncStatus = "synced"
    /\ projects[last.pos].progress = 0

\* C32: lastCacheUpdate takes a new value that is not null only in the step
\* that installs the answer of a full fetch, by the load or by the background
\* refresh; createProject, addModuleToProject and removeModuleFromProject do
\* not advance it.
C32_StampOnlyOnFullRefresh ==
    [][ (lastCacheUpdate' # lastCacheUpdate /\ lastCacheUpdate' # NoTime)
        => last'.op \in {"loadOk", "refreshOk"} ]_vars

\* C33: the snapshot and its timestamp are written together: in every state
\* projectsCache is null exactly when lastCacheUpdate is null; and the install
\* of a fetch replaces projects, the snapshot and the timestamp in one step.
C33_AtomicSnapshot ==
    /\ [](projectsCache.some <=> lastCacheUpdate # NoTime)
    /\ [][ last'.op \in {"loadOk", "refreshOk"}
           => /\ projectsCache' = Some(projects')
              /\ lastCacheUpdate' # NoTime ]_vars

\* a background refresh has installed a list over the one createProject wrote
C33_Witness ==
    /\ last.op = "refreshOk"
    /\ nextId > 1
    /\ projectsCache = Some(projects)
    /\ lastCacheUpdate # NoTime

\* C38: whenever no load, createProject, module, sub-task, refreshProject or
\* archiveProject chain is in flight, isLoading is false.
C38_LoadingReleased ==
    (loadChains = <<>> /\ createChains = <<>> /\ opChains = <<>>) => ~isLoading

\* a load, a createProject and an operation have all ended, one of them by a
\* rejection, and nothing is in flight
C38_Witness ==
    /\ loadChains = <<>> /\ createChains = <<>> /\ opChains = <<>>
    /\ nextId > 1
    /\ opCount = 1
    /\ last.rejected
    /\ projects # <<>>
    /\ ~isLoading

\* C34: a background refresh that has set isRefreshing sets it back to false
\* when its chain ends, with or without a workspace identifier, so the flag is
\* never set forever.
C34_FlagReleased == isRefreshing ~> ~isRefreshing

\* C35: when createProject has settled, also after a background refresh has
\* installed its list while the chain was awaiting the gateway, the created
\* project is in projects: synced and bound to the created board after a
\* success, under its temporary identifier with syncStatus error after a
\* failure.
C35_SurvivesRefresh ==
    /\ last.op = "createOk" =>
          \E i \in 1..Len(projects) :
              /\ projects[i].mondayBoardId = "nb" \o last.id
              /\ projects[i].syncStatus = "synced"
    /\ last.op = "createFail" =>
          \E i \in 1..Len(projects) :
              /\ projects[i].id = last.id
              /\ projects[i].syncStatus = "error"

\* the identifiers of the sub-tasks of every task in the list ps
subTaskIdsIn(ps) ==
    UNION { UNION { UNION { { ps[i].modules[j].tasks[t].subTasks[u].id :
                                 u \in 1..Len(ps[i].modules[j].tasks[t].subTasks) } :
                            t \in 1..Len(ps[i].modules[j].tasks) } :
                    j \in 1..Len(ps[i].modules) } :
            i \in 1..Len(ps) }

\* C36: no sub-task addition is lost when two additions overlap: the step in
\* which an addSubTaskToTask settles keeps every sub-task that projects holds,
\* so that after both have settled projects has the sub-tasks of both.
C36_NoLostUpdate ==
    [][ last'.op \in {"addSubTaskOk", "addSubTaskFail"}
        => subTaskIdsIn(projects) \subseteq subTaskIdsIn(projects') ]_vars

\* C37: the timestamp of the snapshot never moves backwards: a step that
\* leaves lastCacheUpdate non-null, from a non-null value, leaves a value that
\* is at least the previous one.
C37_StampMonotonic ==
    [][ (lastCacheUpdate # NoTime /\ lastCacheUpdate' # NoTime)
        => lastCacheUpdate' >= lastCacheUpdate ]_vars

\* no project of the list ps has two modules with the same name
uniqueModuleNames(ps) ==
    \A i \in 1..Len(ps) : \A j, k \in 1..Len(ps[i].modules) :
        ps[i].modules[j].name = ps[i].modules[k].name => j = k

\* C40: addModuleToProject with the name of a module the project already has
\* issues no gateway call, leaves projects as it is and sets the global error;
\* and no project ever has two modules with the same name, also when two
\* addModuleToProject calls overlap.
C40_UniqueModuleNames ==
    /\ [][ (/\ last'.op = "addModule"
            /\ hasModuleNamed(projects, last'.arg.projectId, last'.arg.name))
           => /\ last'.gw = <<>>
              /\ projects' = projects
              /\ error' = DuplicateModule ]_vars
    /\ [] uniqueModuleNames(projects)

\* C39: with every gateway call of createProject answered in the end, a
\* project that createProject has inserted with syncStatus syncing has
\* syncStatus synced or error later on.
C39_LeavesSyncing ==
    (\E i \in 1..Len(projects) : projects[i].syncStatus = "syncing")
    ~> (\E i \in 1..Len(projects) : projects[i].syncStatus \in {"synced", "error"})

====
